---- MODULE Spec2Model ----
(***************************************************************************)
(* A model of the source-span crate: cursor positions and metrics          *)
(* (position.rs, metrics.rs), the span algebra (lib.rs), the text layout   *)
(* (layout.rs), the lazy buffer (buffer.rs) and the highlight formatter    *)
(* (fmt.rs).                                                               *)
(*                                                                         *)
(* The module holds several state machines that share one set of           *)
(* variables; every specification runs one machine and keeps the variables *)
(* of the other machines at their idle values.                             *)
(*   SpecSpan    a Span register driven by the Span methods                *)
(*   SpecPair    one binary Span operation on a pair of spans              *)
(*   SpecPos     a cursor driven by Position::next                         *)
(*   SpecOrd     Position comparisons, min and max                         *)
(*   SpecLayout  a Layout fed character by character, then queried         *)
(*   SpecFmt     the Formatter's configuration methods                     *)
(*   SpecRender  Formatter::render, one input character per step           *)
(*   SpecDraw    the decoration of one line, one highlight per step        *)
(*   SpecGrid    a CharMap driven by its drawing methods                   *)
(*   SpecBuf     a SourceBuffer queried by position, by index and iterated *)
(*   SpecBlock   Formatter::render with highlights over several lines      *)
(*   SpecCells   CharMap::reserve and draw_marker applied to any cells     *)
(***************************************************************************)
EXTENDS Integers, Sequences, FiniteSets, TLC

VARIABLES
    \* ---- SpecSpan: a Span register ----
    span,       \* the register (self, or the value the last method returned)
    other,      \* the Span argument of the last call, if it took one
    op,         \* the last method called on the register
    arg,        \* the character and tab stop of the last push
    \* ---- SpecPair: the binary Span operations ----
    sa,         \* self
    sb,         \* the argument
    fn,         \* the operation applied to (sa, sb), "none" before it
    rspan,      \* the Span the operation returned (union, inter)
    rans,       \* the answer the operation returned (overlaps, cmp)
    \* ---- SpecPos: a cursor ----
    cur,        \* the cursor
    prev,       \* the cursor before the last Position::next
    lastc,      \* the character last consumed
    ts,         \* the tab stop of the metrics last used
    \* ---- SpecOrd: the order of positions ----
    ps,         \* three positions, the inputs of the comparisons
    ordres,     \* the result of the last comparison / min / max
    \* ---- SpecLayout: a Layout ----
    layout,     \* the Layout: lines, span, len
    str,        \* the characters pushed into the layout so far
    lold,       \* the layout's span before the last push
    lts,        \* the tab stop of the layout's metrics
    lquery,     \* the last query on the layout: byte_index or span_slice
    lanswer,    \* what the query returned
    \* ---- SpecFmt: a Formatter ----
    fmt,        \* the Formatter: highlights, show_line_numbers, viewbox, ...
    call,       \* the last method called on the formatter
    \* ---- SpecRender: one call of Formatter::render(input, span, metrics) ----
    input,      \* the characters the input iterator yields
    bound,      \* the span argument
    mts,        \* the tab stop of the metrics argument
    pc,         \* where render is: "start", "scan" (in the loop), "done", "failed", "panicked"
    idx,        \* the number of items pulled from the input so far
    pos,        \* the cursor of the scan
    lines,      \* the CharMaps pushed so far
    rows,       \* what each CharMap of lines was pushed for (ghost)
    is_important_line,      \* the current line is rendered
    first_non_whitespace,   \* Option<usize>, NoneCol for None
    mapped_highlights,      \* the MappedHighlights
    \* ---- SpecGrid: a CharMap; SpecDraw: draw_line_highlights turn by turn ----
    charmap,    \* the CharMap the methods are called on
    gop,        \* the last method called on charmap, with its arguments
    calls,      \* the number of methods called on charmap
    before,     \* the grid before the last call (SpecGrid) or turn (SpecDraw)
    turn,       \* the index of the next highlight in the loop in progress
    probes,     \* the calls of draw_charmap_if_free made by the last label turn
    \* ---- SpecBuf: a SourceBuffer and the iterators made by iter() ----
    binput,     \* the items of the underlying input: characters and Err items
    bts,        \* the tab stop of the buffer's metrics
    inner,      \* the Inner: input (the items not pulled yet), error, data, lines, span
    iters,      \* the Iters created so far: i, pos, and what each yielded (ghost)
    bcall,      \* the last call on the buffer or on an iterator, with its result
    bold,       \* the Inner before the last call
    surfaced    \* how many calls returned an Err so far (ghost)

spanVars == <<span, other, op, arg>>
pairVars == <<sa, sb, fn, rspan, rans>>
posVars == <<cur, prev, lastc, ts>>
ordVars == <<ps, ordres>>
layoutVars == <<layout, str, lold, lts, lquery, lanswer>>
fmtVars == <<fmt, call>>
renderVars == <<input, bound, mts, pc, idx, pos, lines, rows, is_important_line,
                first_non_whitespace, mapped_highlights>>
drawVars == <<charmap, gop, calls, before, turn, probes>>
bufVars == <<binput, bts, inner, iters, bcall, bold, surfaced>>
vars == <<spanVars, pairVars, posVars, ordVars, layoutVars, fmtVars, renderVars, drawVars,
          bufVars>>

----------------------------------------------------------------------------
(* Bounds of the model. *)

\* Largest line number of a position drawn as an input.
MaxLine == 1
\* Largest column number of a position drawn as an input.
MaxCol == 2
\* Largest tab stop of the metrics drawn as an input.
MaxTab == 3
\* Largest column the cursor of SpecPos starts a step from.
MaxCursorCol == 4
\* Largest number of characters pushed into a layout.
MaxText == 3
\* The most highlights a Formatter is given.
MaxHighlights == 2
\* The most highlights on the one line whose drawing is followed turn by turn.
MaxLineHighlights == 3
\* The largest column and row a CharMap method is called with.
MaxCoord == 1
\* The most methods called in a row on a CharMap.
MaxCalls == 2
\* The widest last row CharMap::align is applied to.
MaxAlignWidth == 3
\* The lowest row a marker is drawn down to.
MaxMarkRow == 3
\* The largest line number of the input a render is given.
MaxInputLine == 3
\* The largest viewbox radius a render is given.
MaxViewbox == 1

\* usize::max_value(); TLC's integers are 32 bits wide, so the largest of them
\* stands for it. No arithmetic of the model goes past it: the guards of the
\* actions keep every column that is added to at most MaxCol.
UsizeMax == 2147483647

----------------------------------------------------------------------------
(* Characters.  A string of length one stands for a char. *)

NL == "\n"
TAB == "\t"
CR == "\r"

\* The characters drawn as inputs: a letter, a space, a new line, a tabulation
\* and a zero-width control character.
Chars == {"a", " ", NL, TAB, CR}

\* char::is_control, on Chars.
IsControl(c) == c \in {NL, TAB, CR}

\* char::is_whitespace, on Chars.
IsWhitespace(c) == c \in {" ", NL, TAB, CR}

\* DefaultMetrics::char_width.
char_width(c) == IF c \in {CR, NL} THEN 0 ELSE 1

----------------------------------------------------------------------------
(* Position (position.rs). *)

Pos(l, c) == [line |-> l, column |-> c]

\* Ord for usize.
UsizeCmp(x, y) == IF x < y THEN "Less" ELSE IF x = y THEN "Equal" ELSE "Greater"

\* A plausible slip in the derived order: the column compared before the line.
PosCmpColumnFirst(p, q) ==
    IF UsizeCmp(p.column, q.column) # "Equal"
    THEN UsizeCmp(p.column, q.column)
    ELSE UsizeCmp(p.line, q.line)

\* #[derive(PartialOrd, Ord)] on Position: the fields are compared in the
\* order of their declaration, line then column.
PosCmp(p, q) ==
    IF UsizeCmp(p.line, q.line) # "Equal"
    THEN UsizeCmp(p.line, q.line)
    ELSE UsizeCmp(p.column, q.column)

PosLt(p, q) == PosCmp(p, q) = "Less"
PosLe(p, q) == PosCmp(p, q) # "Greater"
PosGt(p, q) == PosCmp(p, q) = "Greater"
PosGe(p, q) == PosCmp(p, q) # "Less"

\* std::cmp::min: the first argument unless the second is strictly less.
PosMin(p, q) == IF PosCmp(p, q) = "Greater" THEN q ELSE p

\* std::cmp::max: the second argument unless the first is strictly greater.
PosMax(p, q) == IF PosCmp(p, q) = "Greater" THEN p ELSE q

\* Position::next_column.
next_column(p) == Pos(p.line, p.column + 1)

\* Position::next_line.
next_line(p) == Pos(p.line + 1, 0)

\* A plausible slip in Position::next: the carriage return moves the cursor
\* back to the beginning of the line instead of being ignored.
PosNextCarriageReturn(p, c, tabStop) ==
    IF c = NL THEN next_line(p)
    ELSE IF c = TAB THEN Pos(p.line, (p.column \div tabStop) * tabStop + tabStop)
    ELSE IF c = CR THEN Pos(p.line, 0)
    ELSE IF IsControl(c) THEN p
    ELSE Pos(p.line, p.column + char_width(c))

\* Position::next(c, metrics), metrics being DefaultMetrics with the given
\* tab stop.
PosNext(p, c, tabStop) ==
    IF c = NL THEN next_line(p)
    ELSE IF c = TAB THEN Pos(p.line, (p.column \div tabStop) * tabStop + tabStop)
    ELSE IF IsControl(c) THEN p
    ELSE Pos(p.line, p.column + char_width(c))

\* The positions drawn as inputs.
Positions == {Pos(l, c) : l \in 0..MaxLine, c \in 0..MaxCol}

\* The tab stops drawn as inputs (DefaultMetrics::with_tab_stop).
TabStops == 1..MaxTab

----------------------------------------------------------------------------
(* Span (lib.rs). *)

Span(s, l, e) == [start |-> s, last |-> l, end |-> e]

\* Span::default().
SpanDefault == Span(Pos(0, 0), Pos(0, 0), Pos(0, 0))

\* impl From<Position> for Span.
SpanFrom(p) == Span(p, p, p)

\* Span::new panics on these arguments.
SpanNewPanics(s, l, e) ==
    LET collapse == PosLt(e, s) \/ PosLt(l, s)
        l2 == IF collapse THEN s ELSE l
        e2 == IF collapse THEN s ELSE e
    IN  PosGe(l2, e2) /\ e2 # s

\* Span::new, when it does not panic.
SpanNew(s, l, e) ==
    LET collapse == PosLt(e, s) \/ PosLt(l, s)
    IN  Span(s, IF collapse THEN s ELSE l, IF collapse THEN s ELSE e)

\* Span::is_empty.
is_empty(a) == a.start = a.end

\* A plausible slip in Span::overlaps: the second disjunct closed on the right.
OverlapsClosed(a, b) ==
    \/ (PosLe(a.start, b.start) /\ PosGt(a.end, b.start))
    \/ (PosLe(b.start, a.start) /\ PosGe(b.end, a.start))

\* Span::overlaps.
overlaps(a, b) ==
    \/ (PosLe(a.start, b.start) /\ PosGt(a.end, b.start))
    \/ (PosLe(b.start, a.start) /\ PosGt(b.end, a.start))

\* Span::line_count.
line_count(a) == a.last.line - a.start.line + 1

\* Span::includes, as the specification describes it (the method is not in
\* lib.rs): the first span starts no later and finishes no earlier.
SpanIncludes(a, b) == PosLe(a.start, b.start) /\ PosGe(a.last, b.last)

\* impl Ord for Span.
SpanCmp(a, b) == PosCmp(a.end, b.end)

\* Span::push_column.
push_column(a) == Span(a.start, a.end, next_column(a.end))

\* Span::push_line.
push_line(a) == Span(a.start, a.end, next_line(a.end))

\* A plausible slip in Span::push: last is left where it was.
PushKeepsLast(a, c, tabStop) == Span(a.start, a.last, PosNext(a.end, c, tabStop))

\* Span::push.
push(a, c, tabStop) == Span(a.start, a.end, PosNext(a.end, c, tabStop))

\* Span::union.
union(a, b) ==
    IF PosGt(b.last, a.last) /\ PosGt(b.end, a.end)
    THEN Span(PosMin(a.start, b.start), b.last, b.end)
    ELSE Span(PosMin(a.start, b.start), a.last, a.end)

\* Span::inter panics on these arguments (through Span::new).
InterPanics(a, b) == SpanNewPanics(PosMax(a.start, b.start), b.last, b.end)

\* Span::inter, when it does not panic.
inter(a, b) == SpanNew(PosMax(a.start, b.start), b.last, b.end)

\* Span::append.
append(a, b) ==
    IF PosGt(b.last, a.last) /\ PosGt(b.end, a.end)
    THEN Span(a.start, b.last, b.end)
    ELSE a

\* Span::next.
SpanNext(a) == Span(a.end, a.end, a.end)

\* Span::clear.
clear(a) == Span(a.end, a.end, a.end)

\* Span::aligned.
aligned(a) ==
    Span(Pos(a.start.line, 0), Pos(a.end.line, UsizeMax - 1), Pos(a.end.line, UsizeMax))

\* The spans Span::new builds from the input positions without panicking.
NewSpans ==
    {SpanNew(s, l, e) : <<s, l, e>> \in
        {t \in Positions \X Positions \X Positions : ~SpanNewPanics(t[1], t[2], t[3])}}

----------------------------------------------------------------------------
(* Idle values: what the variables of a machine hold while another runs. *)

NoArg == [c |-> "none", ts |-> 0]

IdleSpan == span = SpanDefault /\ other = SpanDefault /\ op = "idle" /\ arg = NoArg

IdlePair ==
    /\ sa = SpanDefault /\ sb = SpanDefault /\ fn = "idle"
    /\ rspan = SpanDefault /\ rans = "none"

IdlePos == cur = Pos(0, 0) /\ prev = Pos(0, 0) /\ lastc = "none" /\ ts = 1

IdleOrd == ps = <<Pos(0, 0), Pos(0, 0), Pos(0, 0)>> /\ ordres = [op |-> "idle"]

IdleLayout ==
    /\ layout = [lines |-> <<0>>, span |-> SpanDefault, len |-> 0]
    /\ str = <<>> /\ lold = SpanDefault /\ lts = 1
    /\ lquery = [name |-> "none"] /\ lanswer = <<>>

\* Formatter::default(), with the colors feature.  viewbox is an
\* Option<usize>: NoneCol for None.
FormatterDefault ==
    [highlights |-> <<>>,
     margin_color |-> "Blue",
     viewbox |-> 2,
     show_line_numbers |-> TRUE,
     use_line_begining_shortcut |-> TRUE]

IdleFmt == fmt = FormatterDefault /\ call = "idle"

\* Option::None, for an Option<usize>.
NoneCol == -1

\* The tab stop of DefaultMetrics::new().
DefaultTabStop == 8

\* The viewboxes a render is given: None, or Some of a radius.
RenderViewboxes == {NoneCol} \cup 0..MaxViewbox

IdleRender ==
    /\ input = <<>> /\ bound = SpanDefault /\ mts = 1
    /\ pc = "idle" /\ idx = 0 /\ pos = Pos(0, 0)
    /\ lines = <<>> /\ rows = <<>>
    /\ is_important_line = FALSE
    /\ first_non_whitespace = NoneCol
    /\ mapped_highlights = <<>>

\* No method called on the CharMap yet.
NoCall == [name |-> "none", x |-> 0, y |-> 0]

IdleDraw ==
    /\ charmap = [data |-> <<>>, width |-> 0, height |-> 0]
    /\ before = [data |-> <<>>, width |-> 0, height |-> 0]
    /\ gop = NoCall /\ calls = 0 /\ turn = 0 /\ probes = 0

\* Option<E>::None, the error state of a buffer without error.
NoError == "none"

IdleBuf ==
    /\ binput = <<>> /\ bts = 1
    /\ inner = [input |-> <<>>, error |-> NoError, data |-> <<>>, lines |-> <<0>>,
                span |-> SpanDefault]
    /\ bold = [input |-> <<>>, error |-> NoError, data |-> <<>>, lines |-> <<0>>,
               span |-> SpanDefault]
    /\ iters = <<>> /\ bcall = [name |-> "none"] /\ surfaced = 0

\* The machines other than the formatter and its render.
IdleAlgebra == IdleSpan /\ IdlePair /\ IdlePos /\ IdleOrd /\ IdleLayout /\ IdleBuf

----------------------------------------------------------------------------
(* SpecSpan: a Span register.  It starts as Span::default(), a               *)
(* Span::from(position) or a Span::new that did not panic; every action is  *)
(* one method call.  The methods that return a Span (next, union, inter,    *)
(* aligned) leave their result in the register.                             *)

\* The Span arguments drawn as inputs of the register's binary methods: the
\* spans Span::new builds from the corner positions.
Operands ==
    {SpanNew(t[1], t[2], t[3]) : t \in
        {u \in Positions \X Positions \X Positions :
            /\ \A i \in 1..3 : u[i].column \in {0, MaxCol}
            /\ ~SpanNewPanics(u[1], u[2], u[3])}}

\* The cursor stays where the bounded model follows it.
Within(p) == p.line <= MaxLine /\ (p.column <= MaxCol \/ p.column >= UsizeMax - 1)

InitSpan ==
    /\ span \in {SpanDefault} \cup {SpanFrom(p) : p \in Positions} \cup NewSpans
    /\ other = SpanDefault
    /\ op = "new"
    /\ arg = NoArg

SpanIdleOthers == UNCHANGED <<pairVars, posVars, ordVars, layoutVars, bufVars, fmtVars, renderVars, drawVars>>

Alive == op # "panic"

CallPush(c, t) ==
    /\ Alive
    /\ c \in {NL, CR} \/ span.end.column <= MaxCol
    /\ Within(PosNext(span.end, c, t))
    /\ span' = push(span, c, t)
    /\ op' = "push"
    /\ arg' = [c |-> c, ts |-> t]
    /\ other' = SpanDefault
    /\ SpanIdleOthers

CallPushColumn ==
    /\ Alive
    /\ span.end.column < MaxCol
    /\ span' = push_column(span)
    /\ op' = "push_column"
    /\ arg' = NoArg /\ other' = SpanDefault
    /\ SpanIdleOthers

CallPushLine ==
    /\ Alive
    /\ span.end.line < MaxLine
    /\ span' = push_line(span)
    /\ op' = "push_line"
    /\ arg' = NoArg /\ other' = SpanDefault
    /\ SpanIdleOthers

CallClear ==
    /\ Alive
    /\ span' = clear(span)
    /\ op' = "clear"
    /\ arg' = NoArg /\ other' = SpanDefault
    /\ SpanIdleOthers

CallNext ==
    /\ Alive
    /\ span' = SpanNext(span)
    /\ op' = "next"
    /\ arg' = NoArg /\ other' = SpanDefault
    /\ SpanIdleOthers

CallAligned ==
    /\ Alive
    /\ span' = aligned(span)
    /\ op' = "aligned"
    /\ arg' = NoArg /\ other' = SpanDefault
    /\ SpanIdleOthers

CallUnion(o) ==
    /\ Alive
    /\ span' = union(span, o)
    /\ other' = o
    /\ op' = "union"
    /\ arg' = NoArg
    /\ SpanIdleOthers

CallAppend(o) ==
    /\ Alive
    /\ span' = append(span, o)
    /\ other' = o
    /\ op' = "append"
    /\ arg' = NoArg
    /\ SpanIdleOthers

CallInter(o) ==
    /\ Alive
    /\ ~InterPanics(span, o)
    /\ span' = inter(span, o)
    /\ other' = o
    /\ op' = "inter"
    /\ arg' = NoArg
    /\ SpanIdleOthers

NextSpan ==
    \/ \E c \in Chars, t \in TabStops : CallPush(c, t)
    \/ CallPushColumn
    \/ CallPushLine
    \/ CallClear
    \/ CallNext
    \/ CallAligned
    \/ \E o \in Operands : CallUnion(o)
    \/ \E o \in Operands : CallAppend(o)
    \/ \E o \in Operands : CallInter(o)

\* The state SpecSpan starts from: its machine started, the others idle.
StartSpan == InitSpan /\ IdlePair /\ IdlePos /\ IdleOrd /\ IdleLayout /\ IdleBuf /\ IdleFmt /\ IdleRender /\ IdleDraw

SpecSpan ==
    /\ StartSpan
    /\ [][NextSpan]_vars

\* The invariant of the data model: start <= last, start <= end, and a
\* non-empty span has last < end.
SpanInvariant(a) ==
    /\ PosLe(a.start, a.last)
    /\ PosLe(a.start, a.end)
    /\ (a.end # a.start => PosLt(a.last, a.end))

\* C3: every span the register can hold satisfies the invariant of the data
\* model, whatever characters were pushed.
C3_SpanInvariantKept == SpanInvariant(span)

----------------------------------------------------------------------------
(* SpecPair: the binary operations of Span, applied once to a pair of      *)
(* spans.  The two spans are drawn among those Span::new builds.            *)

\* The spans of the data model among those Span::new builds: an empty span
\* has its last position at its start.
PairSpans == {s \in NewSpans : is_empty(s) => s.last = s.start}

InitPair ==
    /\ sa \in PairSpans
    /\ sb \in PairSpans
    /\ fn = "none"
    /\ rspan = SpanDefault
    /\ rans = "none"

PairIdleOthers == UNCHANGED <<spanVars, posVars, ordVars, layoutVars, bufVars, fmtVars, renderVars, drawVars>>

ApplyCmp ==
    /\ fn = "none"
    /\ fn' = "cmp"
    /\ rans' = SpanCmp(sa, sb)
    /\ UNCHANGED <<sa, sb, rspan>>
    /\ PairIdleOthers

ApplyOverlaps ==
    /\ fn = "none"
    /\ fn' = "overlaps"
    /\ rans' = IF overlaps(sa, sb) THEN "true" ELSE "false"
    /\ UNCHANGED <<sa, sb, rspan>>
    /\ PairIdleOthers

ApplyUnion ==
    /\ fn = "none"
    /\ fn' = "union"
    /\ rspan' = union(sa, sb)
    /\ UNCHANGED <<sa, sb, rans>>
    /\ PairIdleOthers

ApplyInter ==
    /\ fn = "none"
    /\ ~InterPanics(sa, sb)
    /\ fn' = "inter"
    /\ rspan' = inter(sa, sb)
    /\ UNCHANGED <<sa, sb, rans>>
    /\ PairIdleOthers

NextPair == ApplyCmp \/ ApplyOverlaps \/ ApplyUnion \/ ApplyInter

\* The state SpecPair starts from: its machine started, the others idle.
StartPair == IdleSpan /\ InitPair /\ IdlePos /\ IdleOrd /\ IdleLayout /\ IdleBuf /\ IdleFmt /\ IdleRender /\ IdleDraw

SpecPair ==
    /\ StartPair
    /\ [][NextPair]_vars

\* C2: the order of spans is total and agrees with equality (cmp answers
\* Equal exactly when the two spans are equal, and a > b exactly when b < a),
\* and a span that includes another, different span is the greater one.
C2_OrderByContainment ==
    fn = "cmp" =>
        /\ (rans = "Equal") <=> (sa = sb)
        /\ (rans = "Greater") <=> (SpanCmp(sb, sa) = "Less")
        /\ (SpanIncludes(sa, sb) /\ sa # sb) => rans = "Greater"

\* C4: the intersection of two spans starts at the later of the two starts,
\* and is the empty span at that position when the spans do not overlap,
\* whichever of the two is the argument.
C4_InterOfDisjointIsEmpty ==
    fn = "inter" =>
        /\ rspan.start = PosMax(sa.start, sb.start)
        /\ ~overlaps(sa, sb) => rspan = SpanFrom(PosMax(sa.start, sb.start))

\* C5: the union of two valid spans starts at the earlier start, ends at the
\* later end, includes both spans, and does not depend on the order of the
\* two spans.
C5_UnionCoversBoth ==
    fn = "union" =>
        /\ rspan.start = PosMin(sa.start, sb.start)
        /\ rspan.end = PosMax(sa.end, sb.end)
        /\ PosLe(rspan.start, sa.start) /\ PosGe(rspan.end, sa.end)
        /\ PosLe(rspan.start, sb.start) /\ PosGe(rspan.end, sb.end)
        /\ rspan = union(sb, sa)

\* p < q, spelled out on the lines and columns.
Before(p, q) == p.line < q.line \/ (p.line = q.line /\ p.column < q.column)

\* a.start <= b.start < a.end or b.start <= a.start < b.end.
StartsInside(a, b) ==
    \/ (~Before(b.start, a.start) /\ Before(b.start, a.end))
    \/ (~Before(a.start, b.start) /\ Before(a.start, b.end))

\* C7 as stated: overlaps is symmetric, holds exactly when one span starts
\* inside the other, and no span overlaps a span that starts at its end.
C7_OverlapsOriginal ==
    fn = "overlaps" =>
        /\ (rans = "true") <=> overlaps(sb, sa)
        /\ (rans = "true") <=> StartsInside(sa, sb)
        /\ sb.start = sa.end => rans = "false"

\* C7 as amended: overlaps is symmetric, holds exactly when one span starts
\* inside the other, and no non-empty span overlaps a span that starts at
\* its end.
C7_OverlapsOpenOnRight ==
    fn = "overlaps" =>
        /\ (rans = "true") <=> overlaps(sb, sa)
        /\ (rans = "true") <=> StartsInside(sa, sb)
        /\ (~is_empty(sa) /\ sb.start = sa.end) => rans = "false"

\* overlaps was asked of a non-empty span and a non-empty span that starts at
\* its end.
C7_Witness ==
    /\ fn = "overlaps"
    /\ ~is_empty(sa) /\ ~is_empty(sb)
    /\ sb.start = sa.end
    /\ rans = "false"

----------------------------------------------------------------------------
(* SpecPos: a cursor consuming characters (Position::next / shift). *)

InitPos ==
    /\ cur \in {Pos(l, c) : l \in 0..MaxLine, c \in 0..MaxCursorCol}
    /\ prev = cur
    /\ lastc = "none"
    /\ ts = 1

\* Position::shift(c, metrics): the cursor moves to next(c, metrics).
Shift(c, t) ==
    /\ cur.line <= MaxLine /\ cur.column <= MaxCursorCol
    /\ cur' = PosNext(cur, c, t)
    /\ prev' = cur
    /\ lastc' = c
    /\ ts' = t
    /\ UNCHANGED <<spanVars, pairVars, ordVars, layoutVars, bufVars, fmtVars, renderVars, drawVars>>

NextPos == \E c \in Chars, t \in TabStops : Shift(c, t)

\* The state SpecPos starts from: its machine started, the others idle.
StartPos == IdleSpan /\ IdlePair /\ InitPos /\ IdleOrd /\ IdleLayout /\ IdleBuf /\ IdleFmt /\ IdleRender /\ IdleDraw

SpecPos ==
    /\ StartPos
    /\ [][NextPos]_vars

\* C8: consuming a character never moves the cursor backwards: a new line
\* leads to the beginning of the next line, a tabulation to the smallest
\* multiple of the tab stop strictly greater than the column, any other
\* control character leaves the cursor where it is, and any other character
\* adds its width to the column.
C8_CursorNeverMovesBack ==
    lastc # "none" =>
        /\ ~Before(cur, prev)
        /\ lastc = NL => cur = Pos(prev.line + 1, 0)
        /\ lastc = TAB =>
            /\ cur.line = prev.line
            /\ cur.column % ts = 0
            /\ cur.column > prev.column
            /\ cur.column - ts <= prev.column
        /\ lastc = CR => cur = prev
        /\ lastc \notin {NL, TAB, CR} =>
            cur = Pos(prev.line, prev.column + char_width(lastc))

\* A zero-width control character was consumed in the middle of a line.
C8_Witness == lastc = CR /\ prev.column > 0 /\ cur = prev

----------------------------------------------------------------------------
(* SpecOrd: the order of positions, on three positions drawn as inputs. *)

\* The min! macro of the tests: min(x, min!(rest)).
RECURSIVE MinOf(_)
MinOf(seq) == IF Len(seq) = 1 THEN seq[1] ELSE PosMin(seq[1], MinOf(Tail(seq)))

\* The max! macro of the tests: max(x, max!(rest)).
RECURSIVE MaxOf(_)
MaxOf(seq) == IF Len(seq) = 1 THEN seq[1] ELSE PosMax(seq[1], MaxOf(Tail(seq)))

InitOrd ==
    /\ ps \in Positions \X Positions \X Positions
    /\ ordres = [op |-> "none"]

OrdIdleOthers == UNCHANGED <<spanVars, pairVars, posVars, layoutVars, bufVars, fmtVars, renderVars, drawVars>>

\* The comparisons of the three positions, pairwise.
Compare ==
    /\ ordres.op = "none"
    /\ ordres' = [op |-> "cmp",
                  c12 |-> PosCmp(ps[1], ps[2]),
                  c21 |-> PosCmp(ps[2], ps[1]),
                  c23 |-> PosCmp(ps[2], ps[3]),
                  c13 |-> PosCmp(ps[1], ps[3])]
    /\ UNCHANGED ps
    /\ OrdIdleOthers

TakeMin ==
    /\ ordres.op = "none"
    /\ ordres' = [op |-> "min", v |-> MinOf(ps)]
    /\ UNCHANGED ps
    /\ OrdIdleOthers

TakeMax ==
    /\ ordres.op = "none"
    /\ ordres' = [op |-> "max", v |-> MaxOf(ps)]
    /\ UNCHANGED ps
    /\ OrdIdleOthers

NextOrd == Compare \/ TakeMin \/ TakeMax

\* The state SpecOrd starts from: its machine started, the others idle.
StartOrd == IdleSpan /\ IdlePair /\ IdlePos /\ InitOrd /\ IdleLayout /\ IdleBuf /\ IdleFmt /\ IdleRender /\ IdleDraw

SpecOrd ==
    /\ StartOrd
    /\ [][NextOrd]_vars

\* C9: positions are totally ordered by line, then column: p < q exactly when
\* p is on an earlier line, or on the same line at an earlier column; p = q
\* exactly when the comparison answers Equal; p > q exactly when q < p; the
\* order is transitive; min and max of positions are the least and the
\* greatest of them.
C9_PositionsTotallyOrdered ==
    /\ ordres.op = "cmp" =>
        /\ (ordres.c12 = "Less") <=> Before(ps[1], ps[2])
        /\ (ordres.c12 = "Equal") <=> (ps[1] = ps[2])
        /\ (ordres.c12 = "Greater") <=> (ordres.c21 = "Less")
        /\ (ordres.c12 = "Less" /\ ordres.c23 = "Less") => ordres.c13 = "Less"
        /\ (ordres.c12 = "Equal" /\ ordres.c23 = "Equal") => ordres.c13 = "Equal"
    /\ ordres.op = "min" =>
        /\ \E i \in 1..3 : ordres.v = ps[i]
        /\ \A i \in 1..3 : ~Before(ps[i], ordres.v)
    /\ ordres.op = "max" =>
        /\ \E i \in 1..3 : ordres.v = ps[i]
        /\ \A i \in 1..3 : ~Before(ordres.v, ps[i])

\* Three positions in increasing order were compared, the first on an
\* earlier line and at a later column than the second.
C9_Witness ==
    /\ ordres.op = "cmp"
    /\ ps[1].line < ps[2].line /\ ps[1].column > ps[2].column
    /\ ordres.c12 = "Less" /\ ordres.c23 = "Less" /\ ordres.c13 = "Less"

----------------------------------------------------------------------------
(* SpecLayout: a Layout fed character by character (Layout::from), then
   asked for byte indices and slices. *)

\* char::len_utf8, on Chars.
len_utf8(c) == 1

\* The position reached from p by consuming the characters of a text in
\* order (Position::shift on each).
RECURSIVE Consume(_, _, _)
Consume(text, p, tabStop) ==
    IF text = <<>> THEN p
    ELSE Consume(Tail(text), PosNext(p, Head(text), tabStop), tabStop)

\* Layout::new(metrics).
InitLayout ==
    /\ layout = [lines |-> <<0>>, span |-> SpanDefault, len |-> 0]
    /\ str = <<>>
    /\ lold = SpanDefault
    /\ lts \in TabStops
    /\ lquery = [name |-> "none"]
    /\ lanswer = <<>>

\* Layout::push(c).
LayoutPush(c) ==
    /\ Len(str) < MaxText
    /\ LET len == layout.len + len_utf8(c)
       IN  layout' = [lines |-> IF c = NL THEN Append(layout.lines, len) ELSE layout.lines,
                      span |-> push(layout.span, c, lts),
                      len |-> len]
    /\ str' = Append(str, c)
    /\ lold' = layout.span
    /\ lquery' = [name |-> "none"]
    /\ lanswer' = <<>>
    /\ UNCHANGED lts
    /\ UNCHANGED <<spanVars, pairVars, posVars, ordVars, bufVars, fmtVars, renderVars, drawVars>>

\* The byte offset of the character that follows the first k characters of a
\* text (str::char_indices).
RECURSIVE ByteOffset(_, _)
ByteOffset(text, k) ==
    IF k = 0 THEN 0 ELSE ByteOffset(text, k - 1) + len_utf8(text[k])

\* The number of characters of a text before the byte offset b, a character
\* boundary of the text.
CharsBefore(text, b) == CHOOSE k \in 0..Len(text) : ByteOffset(text, k) = b

\* The loop of Layout::byte_index from the k-th character of the text on:
\* the offset of the first character reached with the column sought, None
\* at a new line or at the end of the text; each character passed adds
\* char_width to the column.
RECURSIVE ByteIndexFrom(_, _, _, _)
ByteIndexFrom(text, k, column, sought) ==
    IF k > Len(text) THEN NoneCol
    ELSE IF column = sought THEN ByteOffset(text, k - 1)
    ELSE IF text[k] = NL THEN NoneCol
    ELSE ByteIndexFrom(text, k + 1, column + char_width(text[k]), sought)

\* Layout::byte_index(str, position): an Option<usize>, NoneCol for None.
byte_index(l, text, position) ==
    IF position.line < Len(l.lines)
    THEN ByteIndexFrom(text, CharsBefore(text, l.lines[position.line + 1]) + 1,
                       0, position.column)
    ELSE NoneCol

\* The outcome of a slicing that panics (str's Index on a range that starts
\* after its end).
Panicked == <<"panic">>

\* Layout::span_slice(str, span): the slice as a sequence of characters,
\* Panicked when the slice starts after its end.
span_slice(l, text, sp) ==
    LET s == byte_index(l, text, sp.start)
        e == byte_index(l, text, sp.end)
        start == IF s # NoneCol THEN s ELSE 0
        end == IF e # NoneCol THEN e ELSE ByteOffset(text, Len(text))
    IN  IF start > end THEN Panicked
        ELSE SubSeq(text, CharsBefore(text, start) + 1, CharsBefore(text, end))

\* The cursor position of the k-th character of the pushed text, or the
\* position after the text for k = Len(str) + 1.
CursorOf(k) == Consume(SubSeq(str, 1, k - 1), Pos(0, 0), lts)

\* The span of the run str[i..j] (both included).
RunSpan(i, j) == Span(CursorOf(i), CursorOf(j), CursorOf(j + 1))

\* The positions asked for: those of the characters, the end of the text
\* and a grid of positions in and out of the text.
QueryPositions == Positions \cup {CursorOf(k) : k \in 1..(Len(str) + 1)}

\* The spans asked for: those of the runs of the text and the layout's.
QuerySpans ==
    {layout.span}
        \cup UNION {{RunSpan(i, j) : j \in i..Len(str)} : i \in 1..Len(str)}

\* A call to layout.byte_index(str, position) on the text pushed so far.
CallByteIndex(position) ==
    /\ lquery' = [name |-> "byte_index", position |-> position]
    /\ lanswer' = byte_index(layout, str, position)
    /\ UNCHANGED <<layout, str, lold, lts>>
    /\ UNCHANGED <<spanVars, pairVars, posVars, ordVars, bufVars, fmtVars, renderVars, drawVars>>

\* A call to layout.span_slice(str, span) on the text pushed so far.
CallSpanSlice(sp) ==
    /\ lquery' = [name |-> "span_slice", span |-> sp]
    /\ lanswer' = span_slice(layout, str, sp)
    /\ UNCHANGED <<layout, str, lold, lts>>
    /\ UNCHANGED <<spanVars, pairVars, posVars, ordVars, bufVars, fmtVars, renderVars, drawVars>>

NextLayout ==
    \/ \E c \in Chars : LayoutPush(c)
    \/ \E position \in QueryPositions : CallByteIndex(position)
    \/ \E sp \in QuerySpans : CallSpanSlice(sp)

\* The state SpecLayout starts from: its machine started, the others idle.
StartLayout == IdleSpan /\ IdlePair /\ IdlePos /\ IdleOrd /\ InitLayout /\ IdleBuf /\ IdleFmt /\ IdleRender /\ IdleDraw

SpecLayout ==
    /\ StartLayout
    /\ [][NextLayout]_vars

\* C6: a push leaves start where it was, moves last to the previous end and
\* end to the position after the pushed character; so the span of a layout
\* starts at (0,0) and ends at the position reached by consuming the whole
\* text from (0,0).
C6_PushLaw ==
    str # <<>> =>
        /\ layout.span.start = lold.start
        /\ layout.span.last = lold.end
        /\ layout.span.end = PosNext(lold.end, str[Len(str)], lts)
        /\ layout.span.start = Pos(0, 0)
        /\ layout.span.end = Consume(str, Pos(0, 0), lts)

\* A text of several characters with a tabulation and a new line was pushed.
C6_Witness ==
    /\ Len(str) >= 3
    /\ \E i \in 1..Len(str) : str[i] = TAB
    /\ \E i \in 1..Len(str) : str[i] = NL
    /\ layout.span.last # layout.span.start

\* The first character of the pushed text whose cursor position is p, 0 when
\* there is none.
FirstAt(p) ==
    IF \E k \in 1..Len(str) : CursorOf(k) = p
    THEN CHOOSE k \in 1..Len(str) :
            /\ CursorOf(k) = p
            /\ \A j \in 1..(k - 1) : CursorOf(j) # p
    ELSE 0

\* C19: byte_index(S, p) is Some(b) exactly when p is the cursor position,
\* tabulations included, of the character that starts at byte b of S (the
\* first of them when characters of no width share the position), and None
\* when no character of S is at p.
C19_ByteIndexOfCursor ==
    lquery.name = "byte_index" =>
        LET k == FirstAt(lquery.position)
        IN  IF k = 0 THEN lanswer = NoneCol
            ELSE lanswer = ByteOffset(str, k - 1)

\* C20: span_slice(S, span) is the run S[i..j] for the span of that run, and
\* the whole of S for the layout's span.
C20_SpanSliceIsRun ==
    lquery.name = "span_slice" =>
        /\ \A i \in 1..Len(str) : \A j \in i..Len(str) :
                lquery.span = RunSpan(i, j) => lanswer = SubSeq(str, i, j)
        /\ lquery.span = layout.span => lanswer = str

----------------------------------------------------------------------------
(* Style, Char and CharMap (fmt.rs). *)

\* The styles drawn as inputs.  A style is its name; Custom carries its
\* underline character, its marker and its color.
Styles == {[name |-> "Error"], [name |-> "Note"]}

\* Style::line.
StyleLine(st) ==
    IF st.name \in {"Error", "Warning"} THEN "^"
    ELSE IF st.name \in {"Note", "Help"} THEN "_"
    ELSE st.line

\* Style::marker.
StyleMarker(st) ==
    IF st.name \in {"Error", "Warning", "Note", "Help"} THEN "^" ELSE st.marker

\* Style::color, with the colors feature.
StyleColor(st) ==
    CASE st.name = "Error" -> "Red"
      [] st.name = "Warning" -> "Yellow"
      [] st.name = "Note" -> "Blue"
      [] st.name = "Help" -> "Green"
      [] OTHER -> st.color

\* enum Char: the variant, and the character and the color it carries ("" for
\* a variant that carries none).
Cell(k, c, color) == [k |-> k, c |-> c, color |-> color]
Empty == Cell("Empty", "", "")
Text(c) == Cell("Text", c, "")
Margin(c, color) == Cell("Margin", c, color)
Label(c, color) == Cell("Label", c, color)
SpanMarker(c, color) == Cell("SpanMarker", c, color)
SpanUnderline(c, color) == Cell("SpanUnderline", c, color)
SpanVertical(color) == Cell("SpanVertical", "", color)
SpanHorizontal(color) == Cell("SpanHorizontal", "", color)
SpanMargin(color) == Cell("SpanMargin", "", color)
SpanMarginMarker(color) == Cell("SpanMarginMarker", "", color)

\* Char::is_free.
is_free(ch) == ch.k = "Empty"

\* Char::is_span_horizontal.
is_span_horizontal(ch) == ch.k = "SpanHorizontal"

\* Char::is_span_margin.
is_span_margin(ch) == ch.k = "SpanMargin"

\* Char::unwrap: the character a cell is printed as.
unwrap(ch) ==
    CASE ch.k = "Empty" -> " "
      [] ch.k \in {"Text", "Margin", "Label", "SpanUnderline", "SpanMarker"} -> ch.c
      [] ch.k \in {"SpanVertical", "SpanMargin"} -> "|"
      [] ch.k = "SpanHorizontal" -> "_"
      [] ch.k = "SpanMarginMarker" -> "/"

Max(x, y) == IF x >= y THEN x ELSE y
Min(x, y) == IF x <= y THEN x ELSE y

\* CharMap::new: one empty cell.  data[x + y * width + 1] is the cell (x, y).
CharMapNew == [data |-> <<Empty>>, width |-> 1, height |-> 1]

\* The map CharMap::from_label starts from: no cell at all.
CharMapNone == [data |-> <<>>, width |-> 0, height |-> 0]

\* CharMap::get.
get(m, x, y) ==
    IF x >= m.width \/ y >= m.height THEN Empty ELSE m.data[x + y * m.width + 1]

\* An align that lets the rails end: nothing is written under a SpanMargin or
\* a SpanMarginMarker.
AlignCaseNoRail(above, right, left_horizontal) ==
    IF above.k = "Empty" /\ right.k = "SpanHorizontal" THEN SpanMargin(right.color)
    ELSE IF above = Margin("|", above.color) THEN above
    ELSE Empty

\* An align without the fork: no rail begins under an Empty cell on the left
\* of a SpanHorizontal.
AlignCaseNoFork(above, right, left_horizontal) ==
    IF above.k = "SpanMargin" /\ right.k = "SpanHorizontal" /\ ~left_horizontal THEN Empty
    ELSE IF above.k \in {"SpanMargin", "SpanMarginMarker"} THEN SpanMargin(above.color)
    ELSE IF above.k = "Margin" /\ above.c = "|" THEN above
    ELSE Empty

\* An align that lets the bar of the line numbers end: nothing is written
\* under a Margin.
AlignCaseNoBar(above, right, left_horizontal) ==
    IF above.k = "SpanMargin" /\ right.k = "SpanHorizontal" /\ ~left_horizontal THEN Empty
    ELSE IF above.k \in {"SpanMargin", "SpanMarginMarker"} THEN SpanMargin(above.color)
    ELSE IF above.k = "Empty" /\ right.k = "SpanHorizontal" THEN SpanMargin(right.color)
    ELSE Empty

\* The match of CharMap::align: the cell under a cell, from that cell, the
\* cell on its right, and whether the cell on its left is a SpanHorizontal
\* (false in column 0).
AlignCase(above, right, left_horizontal) ==
    IF /\ above.k = "SpanMargin"
       /\ right.k = "SpanHorizontal"
       /\ ~left_horizontal
    THEN Empty
    ELSE IF above.k = "SpanMargin" THEN SpanMargin(above.color)
    ELSE IF above.k = "SpanMarginMarker" THEN SpanMargin(above.color)
    ELSE IF above.k = "Empty" /\ right.k = "SpanHorizontal" THEN SpanMargin(right.color)
    ELSE IF above.k = "Margin" /\ above.c = "|" THEN Margin("|", above.color)
    ELSE Empty

\* The cell CharMap::align gives a new row at column x < width, from the last
\* row of the map as it was.
AlignBelow(m, x) ==
    AlignCase(get(m, x, m.height - 1),
              get(m, x + 1, m.height - 1),
              x > 0 /\ is_span_horizontal(get(m, x - 1, m.height - 1)))

\* A plausible slip in CharMap::align: a cell of the old size is read at its
\* new index, as if the width had not changed.
AlignInPlace(m, width, height) ==
    [i \in 1..(width * height) |->
        LET x == (i - 1) % width
            y == (i - 1) \div width
        IN  IF x < m.width
            THEN IF y < m.height
                 THEN (IF i <= Len(m.data) THEN m.data[i] ELSE Empty)
                 ELSE AlignBelow(m, x)
            ELSE Empty]

\* CharMap::align over all the cells of the new size.  resize walks the cells
\* from the last to the first when the map does not get narrower, so every
\* cell it reads still holds what the map held before.
align(m, width, height) ==
    [i \in 1..(width * height) |->
        LET x == (i - 1) % width
            y == (i - 1) \div width
        IN  IF x < m.width
            THEN IF y < m.height THEN m.data[x + y * m.width + 1] ELSE AlignBelow(m, x)
            ELSE Empty]

\* CharMap::resize, to a size that is no narrower (reserve never asks for
\* less).
resize(m, width, height) ==
    IF width * height = Len(m.data) THEN m
    ELSE [data |-> align(m, width, height), width |-> width, height |-> height]

\* CharMap::reserve.
reserve(m, width, height) == resize(m, Max(width, m.width), Max(height, m.height))

\* The write of CharMap::set, into the map that reserve gave.
SetCell(r, x, y, c) == [r EXCEPT !.data[x + y * r.width + 1] = c]

\* CharMap::set.
set(m, x, y, c) == SetCell(reserve(m, x + 1, y + 1), x, y, c)

\* The loop of CharMap::draw_marker from row j on; head tells whether the
\* marker is already placed.
RECURSIVE DrawMarkerFrom(_, _, _, _, _, _)
DrawMarkerFrom(m, st, y, x, j, head) ==
    IF j > y THEN m
    ELSE LET previous_c == get(m, x, j)
         IN  IF is_free(previous_c) \/ is_span_horizontal(previous_c)
             THEN DrawMarkerFrom(
                    set(m, x, j, IF head THEN SpanVertical(StyleColor(st))
                                 ELSE SpanMarker(StyleMarker(st), StyleColor(st))),
                    st, y, x, j + 1, TRUE)
             ELSE DrawMarkerFrom(m, st, y, x, j + 1, head)

\* A draw_marker that scans the column from the text row on.
DrawMarkerFromTextRow(m, st, y, x) == DrawMarkerFrom(m, st, y, x, 0, FALSE)

\* CharMap::draw_marker.
draw_marker(m, st, y, x) == DrawMarkerFrom(m, st, y, x, 1, FALSE)

\* The loop of CharMap::draw_open_line from column x on.
RECURSIVE DrawOpenLineFrom(_, _, _, _, _)
DrawOpenLineFrom(m, st, y, x, end) ==
    IF x > end THEN m
    ELSE IF x = end THEN draw_marker(m, st, y, x)
    ELSE DrawOpenLineFrom(
            IF ~is_span_margin(get(m, x, y))
            THEN set(m, x, y, SpanHorizontal(StyleColor(st))) ELSE m,
            st, y, x + 1, end)

\* CharMap::draw_open_line.
draw_open_line(m, st, y, start, end) ==
    DrawOpenLineFrom(reserve(m, end + 1, y + 1), st, y, start, end)

\* The loop of CharMap::draw_closed_line from column x on.
RECURSIVE DrawClosedLineFrom(_, _, _, _, _, _)
DrawClosedLineFrom(m, st, y, start, x, end) ==
    IF x > end THEN m
    ELSE DrawClosedLineFrom(
            IF x = start \/ x = end THEN draw_marker(m, st, y, x)
            ELSE set(m, x, y, IF y = 1 THEN SpanUnderline(StyleLine(st), StyleColor(st))
                              ELSE SpanHorizontal(StyleColor(st))),
            st, y, start, x + 1, end)

\* CharMap::draw_closed_line.
draw_closed_line(m, st, y, start, end) ==
    DrawClosedLineFrom(reserve(m, end + 1, y + 1), st, y, start, start, end)

\* CharMap::is_rect_free.
is_rect_free(m, offset_x, offset_y, width, height) ==
    \A y \in offset_y..(offset_y + height - 1) :
        \A x \in offset_x..(offset_x + width - 1) : is_free(get(m, x, y))

\* The loops of CharMap::draw_charmap from the i-th cell of the stamped map on,
\* row by row.
RECURSIVE DrawCharmapFrom(_, _, _, _, _)
DrawCharmapFrom(m, offset_x, offset_y, map, i) ==
    IF i >= map.width * map.height THEN m
    ELSE LET x == i % map.width
             y == i \div map.width
         IN  DrawCharmapFrom(set(m, offset_x + x, offset_y + y, get(map, x, y)),
                             offset_x, offset_y, map, i + 1)

\* CharMap::draw_charmap.
draw_charmap(m, offset_x, offset_y, map) ==
    DrawCharmapFrom(reserve(m, offset_x + map.width, offset_y + map.height),
                    offset_x, offset_y, map, 0)

\* The rectangle CharMap::draw_charmap_if_free wants free is free.
CharmapFits(m, offset_x, offset_y, map) ==
    LET dx == IF offset_x > 0 THEN 1 ELSE 0
        dy == IF offset_y > 1 THEN 1 ELSE 0
    IN  is_rect_free(m, offset_x - dx, offset_y - dy, map.width + dx + 1, map.height + dy + 1)

\* CharMap::draw_charmap_if_free: the map after the call (the call returns
\* CharmapFits).
draw_charmap_if_free(m, offset_x, offset_y, map) ==
    IF CharmapFits(m, offset_x, offset_y, map)
    THEN draw_charmap(m, offset_x, offset_y, map)
    ELSE m

\* The loop of CharMap::from_label from the i-th character of the label on.
RECURSIVE FromLabelFrom(_, _, _, _, _, _)
FromLabelFrom(map, text, color, tabStop, i, p) ==
    IF i > Len(text) THEN map
    ELSE FromLabelFrom(
            IF text[i] \in {NL, TAB} THEN map
            ELSE set(map, p.column, p.line, Label(text[i], color)),
            text, color, tabStop, i + 1, PosNext(p, text[i], tabStop))

\* CharMap::from_label.  A label is a sequence of characters.
from_label(text, color, tabStop) ==
    FromLabelFrom(CharMapNone, text, color, tabStop, 1, Pos(0, 0))


----------------------------------------------------------------------------
(* Highlight and Formatter (fmt.rs). *)

\* An Option<String> label: a sequence of characters when some.
NoLabel == [some |-> FALSE, text |-> <<>>]
SomeLabel(text) == [some |-> TRUE, text |-> text]

Highlight(sp, label, st) == [span |-> sp, label |-> label, style |-> st]

\* The place of x in a sorted sequence, for a stable sort: after every
\* element that is not greater than x.
RECURSIVE InsertSorted(_, _)
InsertSorted(sorted, x) ==
    IF sorted = <<>> THEN <<x>>
    ELSE IF SpanCmp(sorted[Len(sorted)].span, x.span) = "Greater"
         THEN Append(InsertSorted(SubSeq(sorted, 1, Len(sorted) - 1), x), sorted[Len(sorted)])
         ELSE Append(sorted, x)

\* highlights.sort_by(|a, b| a.span.cmp(&b.span)): a stable sort.
RECURSIVE sort_by_span(_)
sort_by_span(hs) ==
    IF hs = <<>> THEN <<>>
    ELSE InsertSorted(sort_by_span(SubSeq(hs, 1, Len(hs) - 1)), hs[Len(hs)])

\* Formatter::set_line_numbers_visible.
set_line_numbers_visible(f, visible) == [f EXCEPT !.show_line_numbers = visible]

\* Formatter::show_line_numbers.
show_line_numbers(f) == [f EXCEPT !.show_line_numbers = FALSE]

\* Formatter::hide_line_numbers.
hide_line_numbers(f) == [f EXCEPT !.show_line_numbers = FALSE]

\* Formatter::set_viewbox.
set_viewbox(f, viewbox) == [f EXCEPT !.viewbox = viewbox]

\* Formatter::add.
add(f, sp, label, st) ==
    [f EXCEPT !.highlights = sort_by_span(Append(f.highlights, Highlight(sp, label, st)))]

\* The greatest of a floor and a set of levels.
RECURSIVE MaxLevel(_, _)
MaxLevel(floor, levels) ==
    IF levels = {} THEN floor
    ELSE LET l == CHOOSE l \in levels : TRUE
         IN  MaxLevel(Max(floor, l), levels \ {l})

\* Highlight::margin_nest_level, against the highlights mapped before it.
margin_nest_level(h, mapped) ==
    IF line_count(h.span) > 1
    THEN MaxLevel(2, {2 + mapped[i].margin_nest_level :
                        i \in {j \in 1..Len(mapped) : overlaps(h.span, mapped[j].h.span)}})
    ELSE 0

\* Highlight::start_nest_level.
start_nest_level(h, mapped, fnw) ==
    IF /\ h.span.last.line > h.span.start.line
       /\ fnw # NoneCol
       /\ fnw >= h.span.start.column
    THEN 0
    ELSE MaxLevel(1, {1 + mapped[i].start_nest_level :
                        i \in {j \in 1..Len(mapped) :
                            /\ \/ h.span.start.line = mapped[j].h.span.start.line
                               \/ h.span.start.line = mapped[j].h.span.last.line
                            /\ \/ overlaps(h.span, mapped[j].h.span)
                               \/ line_count(h.span) > 1}})

\* Highlight::end_nest_level.
end_nest_level(h, mapped) ==
    MaxLevel(1, {1 + mapped[i].end_nest_level :
                    i \in {j \in 1..Len(mapped) :
                        /\ \/ h.span.last.line = mapped[j].h.span.start.line
                           \/ h.span.last.line = mapped[j].h.span.last.line
                        /\ overlaps(h.span, mapped[j].h.span)}})

\* The loop at the head of Formatter::render, from the i-th highlight on: the
\* highlights mapped with their margin nesting levels.
RECURSIVE MapHighlightsFrom(_, _, _)
MapHighlightsFrom(hs, mapped, i) ==
    IF i > Len(hs) THEN mapped
    ELSE MapHighlightsFrom(hs,
            Append(mapped, [h |-> hs[i],
                            margin_nest_level |-> margin_nest_level(hs[i], mapped),
                            start_nest_level |-> 0,
                            end_nest_level |-> 0]),
            i + 1)

MapHighlights(f) == MapHighlightsFrom(f.highlights, <<>>, 1)

\* nest_margin of Formatter::render: the greatest margin nesting level.
nest_margin(mapped) == MaxLevel(0, {mapped[i].margin_nest_level : i \in 1..Len(mapped)})

\* The least n whose ((n as f32).log10() as usize) is 1, 2, ..., 9.  n is
\* rounded to the nearest f32 and so is the logarithm: below 10^7, 10^8 and
\* 10^9 the last integers already give 7, 8 and 9.  (TLC's integers end
\* before the step to 10.)
Log10Steps == <<10, 100, 1000, 10000, 100000, 1000000, 9999995, 99999941, 999998816>>

\* ((n as f32).log10() as usize), for 1 <= n < 2^31.
Log10(n) == Cardinality({k \in 1..Len(Log10Steps) : n >= Log10Steps[k]})

\* Formatter::line_number_margin.
line_number_margin(f, sp) ==
    IF f.show_line_numbers
    THEN IF f.viewbox # NoneCol
         THEN IF f.highlights # <<>>
              THEN Log10(f.highlights[Len(f.highlights)].span.last.line + f.viewbox + 1) + 4
              ELSE 0
         ELSE Log10(sp.last.line + 1) + 4
    ELSE 0

\* sort_unstable on line numbers: x put at its place in a sorted sequence.
RECURSIVE InsertLine(_, _)
InsertLine(sorted, x) ==
    IF sorted = <<>> THEN <<x>>
    ELSE IF sorted[Len(sorted)] > x
         THEN Append(InsertLine(SubSeq(sorted, 1, Len(sorted) - 1), x), sorted[Len(sorted)])
         ELSE Append(sorted, x)

\* The lines Formatter::important_lines collects, from the i-th highlight on.
RECURSIVE CollectLines(_, _)
CollectLines(hs, i) ==
    IF i > Len(hs) THEN <<>>
    ELSE (IF hs[i].span.start.line # hs[i].span.last.line
          THEN <<hs[i].span.start.line, hs[i].span.last.line>>
          ELSE <<hs[i].span.start.line>>) \o CollectLines(hs, i + 1)

RECURSIVE SortLines(_)
SortLines(ls) ==
    IF ls = <<>> THEN <<>>
    ELSE InsertLine(SortLines(SubSeq(ls, 1, Len(ls) - 1)), ls[Len(ls)])

\* Formatter::important_lines: ImportantLines::All, or ImportantLines::Lines
\* with the sorted lines and the viewbox.
important_lines(f) ==
    IF f.viewbox # NoneCol
    THEN [all |-> FALSE, lines |-> SortLines(CollectLines(f.highlights, 1)), viewbox |-> f.viewbox]
    ELSE [all |-> TRUE, lines |-> <<>>, viewbox |-> 0]

\* The comparison ImportantLines::includes hands to binary_search_by.
CandidateCmp(candidate, viewbox, line) ==
    IF line <= candidate + viewbox /\ line >= candidate - Min(candidate, viewbox)
    THEN "Equal"
    ELSE IF line <= candidate + viewbox THEN "Greater"
    ELSE "Less"

\* slice::binary_search_by(..).is_ok(), between left and right.
RECURSIVE BinarySearchFound(_, _, _, _, _)
BinarySearchFound(ls, viewbox, line, left, right) ==
    IF left >= right THEN FALSE
    ELSE LET mid == left + (right - left) \div 2
             c == CandidateCmp(ls[mid + 1], viewbox, line)
         IN  IF c = "Less" THEN BinarySearchFound(ls, viewbox, line, mid + 1, right)
             ELSE IF c = "Greater" THEN BinarySearchFound(ls, viewbox, line, left, mid)
             ELSE TRUE

\* A plausible slip in ImportantLines::includes: only the lines after an
\* important line are in its viewbox.
IncludesAfterOnly(il, line) ==
    il.all \/ \E i \in 1..Len(il.lines) :
                line >= il.lines[i] /\ line <= il.lines[i] + il.viewbox

\* ImportantLines::includes.
includes(il, line) ==
    il.all \/ BinarySearchFound(il.lines, il.viewbox, line, 0, Len(il.lines))

\* std::char::from_digit(d, 10).
from_digit(d) == <<"0", "1", "2", "3", "4", "5", "6", "7", "8", "9">>[d + 1]

\* The number of turns of the digit loop of Formatter::draw_line_number: the
\* number of decimal digits of n >= 1.
RECURSIVE Digits(_)
Digits(n) == IF n < 10 THEN 1 ELSE 1 + Digits(n \div 10)

\* Formatter::draw_line_number subtracts below zero: the digits of line + 1
\* do not fit on the left of column line_number_margin - 3.
DrawLineNumberOverflows(line, lnm) ==
    lnm > 0 /\ line # NoneCol /\ Digits(line + 1) > lnm - 3

\* The digit loop of Formatter::draw_line_number.
RECURSIVE DrawDigitsFrom(_, _, _, _)
DrawDigitsFrom(m, color, x, line) ==
    IF line = 0 THEN m
    ELSE DrawDigitsFrom(set(m, x - 1, 0, Margin(from_digit(line % 10), color)),
                        color, x - 1, line \div 10)

\* The dot loop of Formatter::draw_line_number, from column x on.
RECURSIVE DrawDotsFrom(_, _, _, _)
DrawDotsFrom(m, color, x, end) ==
    IF x >= end THEN m
    ELSE DrawDotsFrom(set(m, x, 0, Margin(".", color)), color, x + 1, end)

\* Formatter::draw_line_number; line is NoneCol for None.
draw_line_number(f, line, m, lnm) ==
    IF lnm > 0
    THEN LET bar == set(m, lnm - 2, 0, Margin("|", f.margin_color))
         IN  IF line # NoneCol
             THEN DrawDigitsFrom(bar, f.margin_color, lnm - 3, line + 1)
             ELSE DrawDotsFrom(bar, f.margin_color, 0, lnm - 3)
    ELSE m

\* The rail loop of Formatter::draw_line_highlights: rows y..=end of column x.
RECURSIVE DrawRailFrom(_, _, _, _, _)
DrawRailFrom(m, x, y, end, color) ==
    IF y > end THEN m
    ELSE DrawRailFrom(set(m, x, y, SpanMargin(color)), x, y + 1, end, color)

\* The line begining shortcut is taken for a highlight on this line.
IsShortcut(line, sp, fnw) ==
    /\ sp.start.line = line
    /\ sp.last.line # line
    /\ fnw # NoneCol
    /\ sp.start.column <= fnw

\* update_start_nest_level or update_end_nest_level on the i-th mapped
\* highlight, as the "span lines" loop calls them on this line.
UpdateNestLevel(line, hs, fnw, i) ==
    IF hs[i].h.span.start.line = line
    THEN [hs[i] EXCEPT !.start_nest_level =
            start_nest_level(hs[i].h, SubSeq(hs, 1, i - 1), fnw)]
    ELSE IF hs[i].h.span.last.line = line
    THEN [hs[i] EXCEPT !.end_nest_level = end_nest_level(hs[i].h, SubSeq(hs, 1, i - 1))]
    ELSE hs[i]

\* What the "span lines" loop draws for a highlight that starts or ends on
\* this line (fmt.rs 1105-1145).
DrawSpanLine(line, m, margin, h, fnw) ==
    IF h.h.span.start.line = line
    THEN IF h.h.span.last.line = line
         THEN draw_closed_line(m, h.h.style, h.start_nest_level,
                               margin + h.h.span.start.column,
                               margin + h.h.span.last.column)
         ELSE IF IsShortcut(line, h.h.span, fnw)
         THEN set(m, margin - h.margin_nest_level, 0,
                  SpanMarginMarker(StyleColor(h.h.style)))
         ELSE draw_open_line(m, h.h.style, h.start_nest_level,
                             margin - h.margin_nest_level + 1,
                             margin + h.h.span.start.column)
    ELSE IF h.h.span.last.line = line
    THEN draw_open_line(m, h.h.style, h.end_nest_level,
                        margin - h.margin_nest_level + 1,
                        margin + h.h.span.last.column)
    ELSE m

\* The rail the "span lines" loop draws in the margin for a highlight
\* (fmt.rs 1147-1160).
DrawSpanRail(line, m, margin, h, fnw) ==
    IF \/ IsShortcut(line, h.h.span, fnw)
       \/ (h.h.span.start.line < line /\ h.h.span.last.line >= line)
    THEN DrawRailFrom(m, margin - h.margin_nest_level,
                      IF IsShortcut(line, h.h.span, fnw) THEN 1 ELSE 0,
                      IF h.h.span.last.line = line THEN h.end_nest_level ELSE m.height - 1,
                      StyleColor(h.h.style))
    ELSE m

\* One turn of the "span lines" loop, for the i-th mapped highlight once its
\* nesting level is updated to h: the grid and the highlights after it.
SpanLineTurn(line, r, margin, fnw, i, h) ==
    [charmap |-> DrawSpanRail(line, DrawSpanLine(line, r.charmap, margin, h, fnw),
                              margin, h, fnw),
     highlights |-> [r.highlights EXCEPT ![i] = h]]

\* One turn of the "span lines" loop of Formatter::draw_line_highlights.
SpanLineStep(line, r, margin, fnw, i) ==
    SpanLineTurn(line, r, margin, fnw, i, UpdateNestLevel(line, r.highlights, fnw, i))

\* The "span lines" loop of Formatter::draw_line_highlights from the i-th
\* highlight on; r holds the grid and the mapped highlights.
RECURSIVE DrawSpanLinesFrom(_, _, _, _, _)
DrawSpanLinesFrom(line, r, margin, fnw, i) ==
    IF i > Len(r.highlights) THEN r
    ELSE DrawSpanLinesFrom(line, SpanLineStep(line, r, margin, fnw, i), margin, fnw, i + 1)

\* A plausible slip in the while loop that places a label: a row is taken
\* only once it lies two rows under the grid.
RECURSIVE LabelRowBelowGrid(_, _, _, _)
LabelRowBelowGrid(m, x, y, label_charmap) ==
    IF y > m.height + 1 THEN y
    ELSE LabelRowBelowGrid(m, x, y + 1, label_charmap)

\* The while loop that places a label: the first row y, from the given one
\* on, where the label is drawn at column x.
RECURSIVE LabelRow(_, _, _, _)
LabelRow(m, x, y, label_charmap) ==
    IF CharmapFits(m, x, y, label_charmap) THEN y
    ELSE LabelRow(m, x, y + 1, label_charmap)

\* The connector loop under a label placed at row y: rows 2..y-1 of column x.
RECURSIVE DrawConnectorFrom(_, _, _, _, _)
DrawConnectorFrom(m, x, vy, y, color) ==
    IF vy >= y THEN m
    ELSE DrawConnectorFrom(set(m, x, vy, SpanVertical(color)), x, vy + 1, y, color)

\* A plausible slip in the placement of a label: no connector is drawn above
\* a label placed under the decorations.
DrawLabelBelowNoConnector(m, x, y, label_charmap, color) ==
    draw_charmap(m, x, y, label_charmap)

\* The label drawn at row y of column x, and its connector above it.
DrawLabelBelow(m, x, y, label_charmap, color) ==
    DrawConnectorFrom(draw_charmap(m, x, y, label_charmap), x, 2, y, color)

\* A label placed: on the right of the marker when there is room, below it
\* otherwise.
PlaceLabel(m, x, label_charmap, color) ==
    IF CharmapFits(m, x + 2, 1, label_charmap)
    THEN draw_charmap(m, x + 2, 1, label_charmap)
    ELSE DrawLabelBelow(m, x, LabelRow(m, x, 3, label_charmap), label_charmap, color)

\* One turn of the "labels" loop of Formatter::draw_line_highlights.
LabelStep(line, m, margin, h, tabStop) ==
    IF h.h.span.last.line = line /\ h.h.label.some
    THEN PlaceLabel(m, margin + h.h.span.last.column,
                    from_label(h.h.label.text, StyleColor(h.h.style), tabStop),
                    StyleColor(h.h.style))
    ELSE m

\* The "labels" loop of Formatter::draw_line_highlights: the highlights in
\* reverse, from the i-th one down.
RECURSIVE DrawLabelsFrom(_, _, _, _, _, _)
DrawLabelsFrom(line, m, margin, hs, tabStop, i) ==
    IF i < 1 THEN m
    ELSE DrawLabelsFrom(line, LabelStep(line, m, margin, hs[i], tabStop),
                        margin, hs, tabStop, i - 1)

\* The "labels" loop on the grid and the highlights the "span lines" loop
\* left.
DrawLabels(line, r, margin, tabStop) ==
    [charmap |-> DrawLabelsFrom(line, r.charmap, margin, r.highlights, tabStop,
                                Len(r.highlights)),
     highlights |-> r.highlights]

\* Formatter::draw_line_highlights: the grid and the mapped highlights after
\* the call.
draw_line_highlights(line, m, margin, hs, tabStop, fnw) ==
    DrawLabels(line,
               DrawSpanLinesFrom(line, [charmap |-> m, highlights |-> hs], margin, fnw, 1),
               margin, tabStop)

----------------------------------------------------------------------------
(* Formatter::render as a machine: one step per item of the input. *)

\* The items of the input are Result<char, E>: a string of length one stands
\* for Ok(char), the two strings below for Err(e) with two errors e.
Err1 == "Err(1)"
Err2 == "Err(2)"
IsErr(item) == item \in {Err1, Err2}

\* What a grid of the output stands for: the grid render starts with, the grid
\* of a source line, or the grid pushed for elided lines (line is then the
\* line at whose end it was pushed).
Row(kind, line) == [kind |-> kind, line |-> line]

\* line_number_margin and margin of the render in progress.
RenderLineNumberMargin == line_number_margin(fmt, bound)

\* A plausible slip in render: the margin without the columns of the rails.
RenderMarginNoNest == RenderLineNumberMargin

RenderMargin == RenderLineNumberMargin + nest_margin(mapped_highlights)

\* The two calls that finish the grid of a line: draw_line_number and then
\* draw_line_highlights.  number is the line number drawn, or NoneCol.
FinishLine(number, line, m, hs, fnw) ==
    draw_line_highlights(line,
        draw_line_number(fmt, number, m, RenderLineNumberMargin),
        RenderMargin, hs, mts, fnw)

\* The last grid replaced.
SetLast(ls, m) == [ls EXCEPT ![Len(ls)] = m]

\* render up to the loop (fmt.rs 939-968).
RenderBegin ==
    /\ pc = "start"
    /\ LET il == important_lines(fmt)
           important == includes(il, bound.start.line)
       IN  /\ mapped_highlights' = MapHighlights(fmt)
           /\ pos' = bound.start
           /\ is_important_line' = important
           /\ lines' = IF important THEN <<CharMapNew, CharMapNew>> ELSE <<CharMapNew>>
           /\ rows' = IF important
                      THEN <<Row("blank", NoneCol), Row("text", bound.start.line)>>
                      ELSE <<Row("blank", NoneCol)>>
    /\ first_non_whitespace' = NoneCol
    /\ pc' = "scan"
    /\ UNCHANGED <<fmt, call, input, bound, mts, idx>>
    /\ UNCHANGED <<spanVars, pairVars, posVars, ordVars, layoutVars, bufVars, drawVars>>

\* The loop pulls an item and goes on with it.
Scanning ==
    /\ pc = "scan"
    /\ idx < Len(input)
    /\ ~PosGt(pos, bound.last)

\* The grid of the current line and the mapped highlights once render has
\* finished the line, if it is important (fmt.rs 979-990, 1033-1044).
CurrentLineDone ==
    IF is_important_line
    THEN FinishLine(pos.line, pos.line, lines[Len(lines)], mapped_highlights,
                    first_non_whitespace)
    ELSE [charmap |-> lines[Len(lines)], highlights |-> mapped_highlights]

\* The next line is important and the current one was not: a grid is pushed
\* for the lines left out (fmt.rs 992-993).
Elides == includes(important_lines(fmt), pos.line + 1) /\ ~is_important_line /\ lines # <<>>

\* The rest of a turn on '\n', from the grids and the mapped highlights as
\* they are after the grid for the lines left out, if any, is pushed.
NewlineEnds(pushed, highlights) ==
    /\ mapped_highlights' = highlights
    /\ first_non_whitespace' = NoneCol
    /\ is_important_line' = includes(important_lines(fmt), pos.line + 1)
    /\ lines' = IF includes(important_lines(fmt), pos.line + 1)
                THEN Append(pushed, CharMapNew) ELSE pushed
    /\ rows' = IF includes(important_lines(fmt), pos.line + 1)
               THEN Append(IF Elides THEN Append(rows, Row("placeholder", pos.line)) ELSE rows,
                           Row("text", pos.line + 1))
               ELSE rows
    /\ pos' = PosNext(pos, NL, mts)

\* The grid for the lines left out, drawn and pushed.
NewlineElides(finished, viewbox_charmap) ==
    NewlineEnds(Append(finished, viewbox_charmap.charmap), viewbox_charmap.highlights)

\* A turn on '\n' once the current line is finished.
NewlineFrom(done) ==
    IF Elides
    THEN NewlineElides(SetLast(lines, done.charmap),
                       FinishLine(NoneCol, pos.line, CharMapNew, done.highlights, NoneCol))
    ELSE NewlineEnds(SetLast(lines, done.charmap), done.highlights)

\* A turn of the loop on '\n'.
RenderNewline ==
    /\ Scanning
    /\ input[idx + 1] = NL
    /\ IF is_important_line /\ DrawLineNumberOverflows(pos.line, RenderLineNumberMargin)
       THEN /\ pc' = "panicked"
            /\ UNCHANGED <<lines, rows, mapped_highlights, is_important_line,
                           first_non_whitespace, pos>>
       ELSE /\ pc' = pc
            /\ NewlineFrom(CurrentLineDone)
    /\ idx' = idx + 1
    /\ UNCHANGED <<fmt, call, input, bound, mts>>
    /\ UNCHANGED <<spanVars, pairVars, posVars, ordVars, layoutVars, bufVars, drawVars>>

\* A turn of the loop on '\t'.
RenderTab ==
    /\ Scanning
    /\ input[idx + 1] = TAB
    /\ pos' = PosNext(pos, TAB, mts)
    /\ idx' = idx + 1
    /\ UNCHANGED <<fmt, call, input, bound, mts, pc, lines, rows, is_important_line,
                   first_non_whitespace, mapped_highlights>>
    /\ UNCHANGED <<spanVars, pairVars, posVars, ordVars, layoutVars, bufVars, drawVars>>

\* A turn of the loop on any other character.
RenderChar ==
    /\ Scanning
    /\ ~IsErr(input[idx + 1])
    /\ input[idx + 1] \notin {NL, TAB}
    /\ LET c == input[idx + 1]
           x == RenderMargin + pos.column
       IN  /\ first_non_whitespace' =
                IF /\ is_important_line
                   /\ fmt.use_line_begining_shortcut
                   /\ first_non_whitespace = NoneCol
                   /\ ~IsWhitespace(c)
                   /\ ~IsControl(c)
                THEN pos.column
                ELSE first_non_whitespace
           /\ lines' = IF is_important_line
                       THEN SetLast(lines, set(lines[Len(lines)], x, 0, Text(c)))
                       ELSE lines
           /\ pos' = PosNext(pos, c, mts)
    /\ idx' = idx + 1
    /\ UNCHANGED <<fmt, call, input, bound, mts, pc, rows, is_important_line,
                   mapped_highlights>>
    /\ UNCHANGED <<spanVars, pairVars, posVars, ordVars, layoutVars, bufVars, drawVars>>

\* A plausible slip in render: an Err item is dropped and the loop goes on.
RenderErrSkips ==
    /\ Scanning
    /\ IsErr(input[idx + 1])
    /\ idx' = idx + 1
    /\ UNCHANGED <<fmt, call, input, bound, mts, pc, pos, lines, rows, is_important_line,
                   first_non_whitespace, mapped_highlights>>
    /\ UNCHANGED <<spanVars, pairVars, posVars, ordVars, layoutVars, bufVars, drawVars>>

\* A turn of the loop on Err(e): `c?` returns Err(e) from render (fmt.rs 974);
\* the grids are dropped with the call, and input[idx] is the error returned.
RenderErr ==
    /\ Scanning
    /\ IsErr(input[idx + 1])
    /\ pc' = "failed"
    /\ idx' = idx + 1
    /\ lines' = <<>>
    /\ rows' = <<>>
    /\ UNCHANGED <<fmt, call, input, bound, mts, pos, is_important_line,
                   first_non_whitespace, mapped_highlights>>
    /\ UNCHANGED <<spanVars, pairVars, posVars, ordVars, layoutVars, bufVars, drawVars>>

\* The last grid finished, at the end of render.
RenderReturns(done) ==
    /\ lines' = SetLast(lines, done.charmap)
    /\ mapped_highlights' = done.highlights

\* The loop ends, on the end of the input or on an item pulled past the last
\* position of the span, and the last grid is finished (fmt.rs 1033-1046).
RenderEnd ==
    /\ pc = "scan"
    /\ idx >= Len(input) \/ PosGt(pos, bound.last)
    /\ idx' = IF idx < Len(input) THEN idx + 1 ELSE idx
    /\ IF is_important_line /\ DrawLineNumberOverflows(pos.line, RenderLineNumberMargin)
       THEN /\ pc' = "panicked"
            /\ UNCHANGED <<lines, mapped_highlights>>
       ELSE /\ pc' = "done"
            /\ RenderReturns(CurrentLineDone)
    /\ UNCHANGED <<fmt, call, input, bound, mts, pos, rows, is_important_line,
                   first_non_whitespace>>
    /\ UNCHANGED <<spanVars, pairVars, posVars, ordVars, layoutVars, bufVars, drawVars>>

----------------------------------------------------------------------------
(* SpecFmt: a Formatter under any sequence of calls of its methods. *)

\* A highlight over lines l1..l2: from column 0 of l1 to column 0 of l2.
LineSpan(l1, l2) == Span(Pos(l1, 0), Pos(l2, 0), Pos(l2, 1))

\* The spans of the highlights added.
FmtSpans ==
    {sp \in {LineSpan(l1, l2) : l1 \in 0..MaxLine, l2 \in 0..MaxLine} :
        sp.start.line <= sp.last.line}

\* The labels of the highlights added.
FmtLabels == {NoLabel, SomeLabel(<<"a">>)}

\* The viewboxes set: None, or Some of a small radius.
Viewboxes == {NoneCol, 0, 1, 2}

InitFmt ==
    /\ fmt = FormatterDefault
    /\ call = "new"

FmtIdleOthers == UNCHANGED <<spanVars, pairVars, posVars, ordVars, layoutVars, bufVars, renderVars, drawVars>>

CallSetLineNumbersVisible(visible) ==
    /\ fmt' = set_line_numbers_visible(fmt, visible)
    /\ call' = "set_line_numbers_visible"
    /\ FmtIdleOthers

CallShowLineNumbers ==
    /\ fmt' = show_line_numbers(fmt)
    /\ call' = "show_line_numbers"
    /\ FmtIdleOthers

CallHideLineNumbers ==
    /\ fmt' = hide_line_numbers(fmt)
    /\ call' = "hide_line_numbers"
    /\ FmtIdleOthers

CallSetViewbox(viewbox) ==
    /\ fmt' = set_viewbox(fmt, viewbox)
    /\ call' = "set_viewbox"
    /\ FmtIdleOthers

CallAdd(sp, label, st) ==
    /\ Len(fmt.highlights) < MaxHighlights
    /\ fmt' = add(fmt, sp, label, st)
    /\ call' = "add"
    /\ FmtIdleOthers

NextFmt ==
    \/ \E visible \in BOOLEAN : CallSetLineNumbersVisible(visible)
    \/ CallShowLineNumbers
    \/ CallHideLineNumbers
    \/ \E viewbox \in Viewboxes : CallSetViewbox(viewbox)
    \/ \E sp \in FmtSpans, label \in FmtLabels, st \in Styles : CallAdd(sp, label, st)

\* The state SpecFmt starts from: its machine started, the others idle.
StartFmt == InitFmt /\ IdleAlgebra /\ IdleRender /\ IdleDraw

SpecFmt ==
    /\ StartFmt
    /\ [][NextFmt]_vars

\* C1: whenever the last call on a Formatter is show_line_numbers(), line
\* numbers are shown: the flag is set, and the line number margin of a render
\* is positive when a highlight exists.  A new Formatter shows line numbers.
C1_ShowLineNumbersShows ==
    /\ call = "new" => fmt.show_line_numbers
    /\ call = "show_line_numbers" =>
        /\ fmt.show_line_numbers
        /\ fmt.highlights # <<>> =>
            \A sp \in FmtSpans : line_number_margin(fmt, sp) > 0

----------------------------------------------------------------------------
(* SpecRender: one call of Formatter::render, on a formatter built by the   *)
(* Formatter's methods, an input of MaxInputLine + 1 lines and a span that  *)
(* starts at the first character of the input and ends with one of its      *)
(* characters.                                                              *)

\* n + 1 lines of the same body, a '\n' between two lines.
RECURSIVE InputOf(_, _)
InputOf(body, n) == IF n = 0 THEN body ELSE InputOf(body, n - 1) \o <<NL>> \o body

\* The bodies of the lines of an input.
RenderBodies == {<<"a">>, <<TAB, "a">>}

\* The inputs rendered.
RenderInputs == {InputOf(body, MaxInputLine) : body \in RenderBodies}

\* The span of the first k characters of a text that starts at Position
\* (0, 0), as SourceBuffer::span and Layout::span give it: last is the
\* position of the k-th character, end the position after it.
SpanOfPrefix(text, k, tabStop) ==
    LET last == Consume(SubSeq(text, 1, k - 1), Pos(0, 0), tabStop)
    IN  Span(Pos(0, 0), last, PosNext(last, text[k], tabStop))

\* The spans given to render: the prefixes of the input that end with the
\* last character of a line or with its '\n'.
RenderBounds(text, tabStop) ==
    {SpanOfPrefix(text, k, tabStop) :
        k \in {j \in 1..Len(text) : text[j] = NL \/ j = Len(text) \/ text[j + 1] = NL}}

\* The highlights added: over whole lines, a label on those of one line.
RenderHighlight(l1, l2) ==
    Highlight(LineSpan(l1, l2),
              IF l1 = l2 THEN SomeLabel(<<"a">>) ELSE NoLabel,
              [name |-> "Error"])

RenderHighlights ==
    {RenderHighlight(l[1], l[2]) :
        l \in {p \in (0..MaxInputLine) \X (0..MaxInputLine) : p[1] <= p[2]}}

\* A formatter after at most MaxHighlights calls of add.
RECURSIVE FormattersWith(_)
FormattersWith(n) ==
    IF n = 0 THEN {FormatterDefault}
    ELSE FormattersWith(n - 1) \cup
         {add(f, h.span, h.label, h.style) : f \in FormattersWith(n - 1), h \in RenderHighlights}

\* The formatters that render: highlights added, then the viewbox set.
RenderFormatters ==
    {set_viewbox(f, viewbox) : f \in FormattersWith(MaxHighlights), viewbox \in RenderViewboxes}

\* The text of the first example of the documentation: "Hello\nWorld!".
HelloWorld == <<"H", "e", "l", "l", "o", NL, "W", "o", "r", "l", "d", "!">>

\* A text whose k-th item fails with the error e.
WithErr(text, k, e) == [text EXCEPT ![k] = e]

\* The inputs that fail: the lines of one letter with one item that fails, and
\* the same with a last item that fails with another error.
ErrInputs ==
    LET text == InputOf(<<"a">>, MaxInputLine)
    IN  {WithErr(text, k, Err1) : k \in 1..Len(text)} \cup
        {WithErr(WithErr(text, k, Err1), Len(text), Err2) : k \in 1..(Len(text) - 1)}

\* The renders checked, each a text, the items the input yields for it and a
\* formatter: the texts of RenderInputs read without error under every
\* formatter, "Hello\nWorld!" without highlight, and the inputs that fail
\* under the formatters of one highlight at most and no viewbox.
RenderCases ==
    {[text |-> t, input |-> t, fmt |-> f] : t \in RenderInputs, f \in RenderFormatters}
    \cup {[text |-> HelloWorld, input |-> HelloWorld, fmt |-> set_viewbox(FormatterDefault, v)] :
            v \in RenderViewboxes}
    \cup {[text |-> InputOf(<<"a">>, MaxInputLine), input |-> i, fmt |-> set_viewbox(f, NoneCol)] :
            i \in ErrInputs, f \in FormattersWith(1)}

InitRender ==
    /\ \E rc \in RenderCases :
        /\ fmt = rc.fmt
        /\ input = rc.input
        /\ bound \in RenderBounds(rc.text, DefaultTabStop)
    /\ call = "idle"
    /\ mts = DefaultTabStop
    /\ pc = "start" /\ idx = 0 /\ pos = Pos(0, 0)
    /\ lines = <<>> /\ rows = <<>>
    /\ is_important_line = FALSE
    /\ first_non_whitespace = NoneCol
    /\ mapped_highlights = <<>>

NextRender ==
    \/ RenderBegin
    \/ RenderNewline
    \/ RenderTab
    \/ RenderChar
    \/ RenderErr
    \/ RenderEnd

\* The state SpecRender starts from: its machine started, the others idle.
StartRender == InitRender /\ IdleAlgebra /\ IdleDraw

SpecRender ==
    /\ StartRender
    /\ [][NextRender]_vars

\* Some highlight's start line or last line c has c - v <= L <= c + v.
WithinViewbox(f, L) ==
    \E i \in 1..Len(f.highlights) :
        \E c \in {f.highlights[i].span.start.line, f.highlights[i].span.last.line} :
            c - f.viewbox <= L /\ L <= c + f.viewbox

\* The lines of the bounding span.
SpanLines == bound.start.line..bound.last.line

\* The output holds a text row for line L.
Rendered(L) == \E i \in 1..Len(rows) : rows[i] = Row("text", L)

\* s..e is a maximal stretch of consecutive lines of the bounding span that
\* are not within the viewbox of an important line.
ElidedStretch(s, e) ==
    /\ s \in SpanLines /\ e \in SpanLines /\ s <= e
    /\ \A L \in s..e : ~WithinViewbox(fmt, L)
    /\ s - 1 \in SpanLines => WithinViewbox(fmt, s - 1)
    /\ e + 1 \in SpanLines => WithinViewbox(fmt, e + 1)

\* The placeholder rows of the output that stand for lines of s..e.
PlaceholdersOf(s, e) ==
    {i \in 1..Len(rows) : rows[i].kind = "placeholder" /\ rows[i].line \in s..e}

\* The part of C10 about ImportantLines::includes and the text rows.
RenderedIffWithinViewbox ==
    /\ \A L \in 0..(MaxInputLine + 2) :
        includes(important_lines(fmt), L) <=> WithinViewbox(fmt, L)
    /\ \A L \in SpanLines : Rendered(L) <=> WithinViewbox(fmt, L)

\* C10 as stated: with viewbox Some(v), a finished render holds a text row
\* for a line L of the bounding span iff L is within v of some highlight's
\* start or last line, ImportantLines::includes is that predicate, and every
\* elided stretch of consecutive non-rendered lines has exactly one
\* placeholder row.
C10_ViewboxOriginal ==
    (pc = "done" /\ fmt.viewbox # NoneCol) =>
        /\ RenderedIffWithinViewbox
        /\ \A s \in SpanLines, e \in SpanLines :
            ElidedStretch(s, e) => Cardinality(PlaceholdersOf(s, e)) = 1

\* C10, amended: with viewbox Some(v), a finished render holds a text row for
\* a line L of the bounding span iff L is within v of some highlight's start
\* or last line, ImportantLines::includes is that predicate, and an elided
\* stretch has exactly one placeholder row, right before the row of the line
\* after it, when the output holds a row for that line, and no placeholder
\* row when it holds none (the stretch that reaches the end of the render).
C10_ViewboxPlaceholders ==
    (pc = "done" /\ fmt.viewbox # NoneCol) =>
        /\ RenderedIffWithinViewbox
        /\ \A s \in SpanLines, e \in SpanLines :
            ElidedStretch(s, e) =>
                IF Rendered(e + 1)
                THEN /\ Cardinality(PlaceholdersOf(s, e)) = 1
                     /\ \A i \in PlaceholdersOf(s, e) :
                            /\ rows[i].line = e
                            /\ i < Len(rows)
                            /\ rows[i + 1] = Row("text", e + 1)
                ELSE PlaceholdersOf(s, e) = {}

\* A finished render with a viewbox, a stretch of two elided lines or more
\* that has its placeholder row, and an elided stretch at the end.
C10_Witness ==
    /\ pc = "done" /\ fmt.viewbox # NoneCol
    /\ \E s \in SpanLines, e \in SpanLines :
        /\ ElidedStretch(s, e) /\ s < e /\ Rendered(e + 1)
        /\ Cardinality(PlaceholdersOf(s, e)) = 1
    /\ \E s \in SpanLines, e \in SpanLines :
        /\ ElidedStretch(s, e) /\ ~Rendered(e + 1)
        /\ \E L \in SpanLines : L < s /\ Rendered(L)

\* The coordinates in range of a map.
InRange(m) == (0..(m.width - 1)) \X (0..(m.height - 1))

\* The cells of a kind in a grid.
CellsOf(m, kinds) == {c \in (0..(m.width - 1)) \X (0..(m.height - 1)) : get(m, c[1], c[2]).k \in kinds}

\* What draw_line_number and the align rule alone leave at column x of row y
\* of the gutter of a grid: nothing in the grid render starts with; in row 0,
\* what draw_line_number draws (the number of the line, or the dots of a grid
\* pushed for elided lines, and the bar); below, the bar propagated.
GutterCell(row, x, y) ==
    IF row.kind = "blank" THEN Empty
    ELSE IF y = 0
    THEN get(draw_line_number(fmt, IF row.kind = "text" THEN row.line ELSE NoneCol,
                              CharMapNew, RenderLineNumberMargin), x, 0)
    ELSE IF x = RenderLineNumberMargin - 2 THEN Margin("|", fmt.margin_color)
    ELSE Empty

\* C13: in every grid of a finished render, the columns on the left of
\* line_number_margin hold only Empty and Margin cells, and exactly those
\* draw_line_number and the downward propagation of the bar leave: no text,
\* marker, horizontal, rail or label is written there.
C13_GutterKept ==
    pc = "done" =>
        \A i \in 1..Len(lines) :
            \A x \in 0..(RenderLineNumberMargin - 1), y \in 0..(lines[i].height - 1) :
                /\ get(lines[i], x, y).k \in {"Empty", "Margin"}
                /\ get(lines[i], x, y) = GutterCell(rows[i], x, y)

\* A finished render with line numbers whose grids hold a rail, a label on a
\* decoration row, and a grid pushed for elided lines.
C13_Witness ==
    /\ pc = "done"
    /\ RenderLineNumberMargin > 0
    /\ \E i \in 1..Len(lines) : CellsOf(lines[i], {"SpanMargin"}) # {}
    /\ \E i \in 1..Len(lines) :
        /\ lines[i].height >= 2
        /\ CellsOf(lines[i], {"Label"}) # {}
    /\ \E i \in 1..Len(rows) : rows[i].kind = "placeholder"

\* C30: when line numbers are shown, every row of the grid of every rendered
\* line and of every grid pushed for elided lines, the text row and the rows
\* added under it by highlights and labels, holds the bar Margin('|') at
\* column line_number_margin - 2.
C30_BarOnEveryRow ==
    (pc = "done" /\ RenderLineNumberMargin > 0) =>
        \A i \in 1..Len(lines) :
            rows[i].kind \in {"text", "placeholder"} =>
                \A y \in 0..(lines[i].height - 1) :
                    get(lines[i], RenderLineNumberMargin - 2, y) = Margin("|", fmt.margin_color)

\* A finished render with line numbers: a line has three rows or more, the
\* lowest added for a label, and a grid stands for elided lines.
C30_Witness ==
    /\ pc = "done"
    /\ RenderLineNumberMargin > 0
    /\ \E i \in 1..Len(lines) :
        /\ rows[i].kind = "text"
        /\ lines[i].height >= 3
        /\ get(lines[i], RenderLineNumberMargin - 2, lines[i].height - 1)
            = Margin("|", fmt.margin_color)
    /\ \E i \in 1..Len(lines) :
        /\ rows[i].kind = "placeholder"
        /\ get(lines[i], RenderLineNumberMargin - 2, 0) = Margin("|", fmt.margin_color)

\* impl Display for CharMap, the color directives left out: a row is the
\* characters of its cells, a '\n' follows every row.
RowString(m, y) == [x \in 1..m.width |-> unwrap(get(m, x - 1, y))]
CharMapDisplay(m) == [y \in 1..m.height |-> RowString(m, y - 1)]

\* impl Display for Formatted: the rows of the grids, one grid after the
\* other.
RECURSIVE FormattedDisplay(_)
FormattedDisplay(ls) ==
    IF ls = <<>> THEN <<>>
    ELSE CharMapDisplay(Head(ls)) \o FormattedDisplay(Tail(ls))

\* "Hello\nWorld!" was rendered whole, without highlight, with line numbers
\* and every line shown.
HelloWorldRendered ==
    /\ pc = "done"
    /\ input = HelloWorld
    /\ fmt.highlights = <<>>
    /\ fmt.show_line_numbers
    /\ fmt.viewbox = NoneCol
    /\ bound = SpanOfPrefix(HelloWorld, Len(HelloWorld), mts)

\* C15: the render of "Hello\nWorld!" without highlight, with line numbers
\* and a span over the whole text, displays the two rows "1 | Hello" and
\* "2 | World!" and no other row.
C15_HelloWorld ==
    HelloWorldRendered =>
        FormattedDisplay(lines) =
            << <<"1", " ", "|", " ", "H", "e", "l", "l", "o">>,
               <<"2", " ", "|", " ", "W", "o", "r", "l", "d", "!">> >>

\* Span a strictly contains span b: it starts no later, ends no earlier, and
\* is another span.
StrictlyContains(a, b) ==
    /\ PosLe(a.start, b.start)
    /\ PosGe(a.end, b.end)
    /\ a # b

\* C17: of two highlights of several lines where one span strictly contains
\* the other, whatever the order they were added in, the one that contains
\* has the greater margin_nest_level once render has mapped the highlights.
C17_ContainingIsOuter ==
    pc \in {"scan", "done"} =>
        \A i \in 1..Len(mapped_highlights), j \in 1..Len(mapped_highlights) :
            (/\ line_count(mapped_highlights[i].h.span) > 1
             /\ line_count(mapped_highlights[j].h.span) > 1
             /\ StrictlyContains(mapped_highlights[i].h.span, mapped_highlights[j].h.span))
            => mapped_highlights[i].margin_nest_level > mapped_highlights[j].margin_nest_level

\* The position of the cursor when the k-th item is pulled, the items before
\* it being characters.
PositionAt(k) == Consume(SubSeq(input, 1, k - 1), bound.start, mts)

\* The k-th item is the first Err of the input and its position is within
\* the bounding span.
FirstErrWithin(k) ==
    /\ IsErr(input[k])
    /\ \A j \in 1..(k - 1) : ~IsErr(input[j])
    /\ PosLe(PositionAt(k), bound.last)

\* The state part of C18: a render that failed returns the first Err of the
\* input, pulled within the bounding span, and no grid; a render does not
\* return a Formatted when the first Err is within the bounding span; while
\* the loop runs no item pulled was an Err.
ErrReturned ==
    /\ idx <= Len(input)
    /\ pc = "failed" =>
        /\ idx >= 1
        /\ FirstErrWithin(idx)
        /\ pos = PositionAt(idx)
        /\ lines = <<>>
    /\ pc = "done" => \A k \in 1..Len(input) : ~FirstErrWithin(k)
    /\ pc = "scan" => \A j \in 1..idx : ~IsErr(input[j])

\* The step part of C18: a step pulls the next item or none, and no step
\* follows a failure.
PullsInOrder ==
    /\ idx' \in {idx, idx + 1}
    /\ pc # "failed"

\* C18: render returns Err(e) for the first Err(e) the input yields within
\* the bounding span, pulls nothing after it and returns no Formatted; the
\* items are pulled in order, each at most once.
C18_FirstErrReturned == []ErrReturned /\ [][PullsInOrder]_vars

\* A render failed on the second line or later, under a formatter with a
\* highlight, and another Err further in the input was not pulled.
C18_Witness ==
    /\ pc = "failed"
    /\ pos.line >= 1
    /\ idx < Len(input)
    /\ IsErr(input[Len(input)])
    /\ fmt.highlights # <<>>

----------------------------------------------------------------------------
(* SpecDraw: the render of a one-line text whose highlights all lie on that *)
(* line, with Formatter::draw_line_highlights followed one loop turn per    *)
(* step: the "span lines" loop first, then the "labels" loop in reverse.    *)

\* The span of the columns c1..c2 of line 0.
ColSpan(c1, c2) == Span(Pos(0, c1), Pos(0, c2), Pos(0, c2 + 1))

\* The two highlights of the text "aa bb": "aa" labelled A, "bb" labelled B.
HighlightA == Highlight(ColSpan(0, 1), SomeLabel(<<"A">>), [name |-> "Error"])
HighlightB == Highlight(ColSpan(3, 4), SomeLabel(<<"B">>), [name |-> "Error"])

\* The highlights added: the two above, one over the whole text with a label
\* of two lines, one on the last column, and one without a label.
DrawHighlights ==
    {HighlightA,
     HighlightB,
     Highlight(ColSpan(0, 4), SomeLabel(<<"C", NL, "c">>), [name |-> "Note"]),
     Highlight(ColSpan(4, 4), SomeLabel(<<"D">>), [name |-> "Error"]),
     Highlight(ColSpan(1, 3), NoLabel, [name |-> "Note"])}

\* A formatter after one add and at most n - 1 more.
RECURSIVE DrawFormattersWith(_)
DrawFormattersWith(n) ==
    IF n = 0 THEN {}
    ELSE DrawFormattersWith(n - 1) \cup
         {add(f, h.span, h.label, h.style) :
            f \in DrawFormattersWith(n - 1) \cup {FormatterDefault}, h \in DrawHighlights}

\* The texts drawn.
AaBb == <<"a", "a", " ", "b", "b">>
DrawInputs == {AaBb, <<"a", TAB, "b">>}

InitDraw ==
    /\ fmt \in DrawFormattersWith(MaxLineHighlights)
    /\ call = "idle"
    /\ input \in DrawInputs
    /\ mts = DefaultTabStop
    /\ bound = SpanOfPrefix(input, Len(input), mts)
    /\ pc = "start" /\ idx = 0 /\ pos = Pos(0, 0)
    /\ lines = <<>> /\ rows = <<>>
    /\ is_important_line = FALSE
    /\ first_non_whitespace = NoneCol
    /\ mapped_highlights = <<>>
    /\ charmap = CharMapNone /\ gop = NoCall /\ calls = 0
    /\ before = CharMapNone /\ turn = 0 /\ probes = 0

\* line_charmap: the grid of the line being drawn.
LineCharmap == lines[Len(lines)]

\* The input is at its end: render leaves the loop and draws the line number
\* of the last line (fmt.rs 1033-1035), then calls draw_line_highlights.
DrawLineNumberStep ==
    /\ pc = "scan"
    /\ idx >= Len(input)
    /\ is_important_line
    /\ ~DrawLineNumberOverflows(pos.line, RenderLineNumberMargin)
    /\ before' = LineCharmap
    /\ lines' = SetLast(lines, draw_line_number(fmt, pos.line, LineCharmap,
                                                RenderLineNumberMargin))
    /\ pc' = "spans"
    /\ turn' = 1
    /\ UNCHANGED <<fmt, call, input, bound, mts, idx, pos, rows, is_important_line,
                   first_non_whitespace, mapped_highlights, charmap, gop, calls, probes>>
    /\ UNCHANGED <<spanVars, pairVars, posVars, ordVars, layoutVars, bufVars>>

\* What a turn of the "span lines" loop leaves: the grid and the highlights.
SpanTurnEnds(r) ==
    /\ lines' = SetLast(lines, r.charmap)
    /\ mapped_highlights' = r.highlights

\* One turn of the "span lines" loop (fmt.rs 1101-1163); the "labels" loop
\* starts from the last highlight once this loop is over.
DrawSpanLineTurn ==
    /\ pc = "spans"
    /\ turn <= Len(mapped_highlights)
    /\ SpanTurnEnds(SpanLineStep(pos.line,
                                 [charmap |-> LineCharmap, highlights |-> mapped_highlights],
                                 RenderMargin, first_non_whitespace, turn))
    /\ before' = LineCharmap
    /\ pc' = IF turn = Len(mapped_highlights) THEN "labels" ELSE "spans"
    /\ turn' = IF turn = Len(mapped_highlights) THEN turn ELSE turn + 1
    /\ UNCHANGED <<fmt, call, input, bound, mts, idx, pos, rows, is_important_line,
                   first_non_whitespace, charmap, gop, calls, probes>>
    /\ UNCHANGED <<spanVars, pairVars, posVars, ordVars, layoutVars, bufVars>>

\* The calls of draw_charmap_if_free a label placed at column x makes: one for
\* the place on the right of the marker, then one per row tried from row 3.
PlaceLabelProbes(m, x, label_charmap) ==
    IF CharmapFits(m, x + 2, 1, label_charmap) THEN 1
    ELSE 1 + (LabelRow(m, x, 3, label_charmap) - 2)

\* The calls of draw_charmap_if_free of one turn of the "labels" loop.
LabelStepProbes(line, m, margin, h, tabStop) ==
    IF h.h.span.last.line = line /\ h.h.label.some
    THEN PlaceLabelProbes(m, margin + h.h.span.last.column,
                          from_label(h.h.label.text, StyleColor(h.h.style), tabStop))
    ELSE 0

\* One turn of the "labels" loop (fmt.rs 1166-1184); render returns after the
\* last one.
DrawLabelTurn ==
    /\ pc = "labels"
    /\ turn >= 1
    /\ lines' = SetLast(lines, LabelStep(pos.line, LineCharmap, RenderMargin,
                                         mapped_highlights[turn], mts))
    /\ probes' = LabelStepProbes(pos.line, LineCharmap, RenderMargin,
                                 mapped_highlights[turn], mts)
    /\ before' = LineCharmap
    /\ pc' = IF turn = 1 THEN "done" ELSE "labels"
    /\ turn' = turn - 1
    /\ UNCHANGED <<fmt, call, input, bound, mts, idx, pos, rows, is_important_line,
                   first_non_whitespace, mapped_highlights, charmap, gop, calls>>
    /\ UNCHANGED <<spanVars, pairVars, posVars, ordVars, layoutVars, bufVars>>

NextDraw ==
    \/ RenderBegin
    \/ RenderTab
    \/ RenderChar
    \/ DrawLineNumberStep
    \/ DrawSpanLineTurn
    \/ DrawLabelTurn

\* The state SpecDraw starts from: its machine started, the others idle.
StartDraw == InitDraw /\ IdleAlgebra

SpecDraw ==
    /\ StartDraw
    /\ [][NextDraw]_vars

\* The highlight of the last turn of the "labels" loop.
LastLabelled == mapped_highlights[turn + 1]

\* A turn of the "labels" loop has just been taken.
AfterLabelTurn == pc \in {"labels", "done"} /\ turn < Len(mapped_highlights)

\* The cells of the grid before the last turn that held a Label.
LabelCells(m) ==
    {c \in (0..(m.width - 1)) \X (0..(m.height - 1)) : get(m, c[1], c[2]).k = "Label"}

\* C11: while a line's grid is drawn, a cell that holds a Label keeps it: no
\* later turn of the "labels" loop (the stamp of another label, the
\* SpanVertical connector above it) changes a cell that held a Label before
\* the turn.
C11_LabelsWin ==
    AfterLabelTurn =>
        \A c \in LabelCells(before) : get(LineCharmap, c[1], c[2]) = get(before, c[1], c[2])

\* The label grid of the highlight of the last turn, the column of its
\* marker, and the row and the column it was stamped at: row 1 on the right
\* of the marker when the first call of draw_charmap_if_free drew it, the row
\* of the last call in the column of the marker otherwise.
LastLabel == from_label(LastLabelled.h.label.text, StyleColor(LastLabelled.h.style), mts)
LastMarkerColumn == RenderMargin + LastLabelled.h.span.last.column
LandingRow == IF probes = 1 THEN 1 ELSE probes + 1
LandingColumn == IF probes = 1 THEN LastMarkerColumn + 2 ELSE LastMarkerColumn

\* C14: the loop that places a label ends: it makes at least one and at most
\* (height of the grid + height of the label) calls of draw_charmap_if_free,
\* the label lands at the latest on the first row from 3 on whose padded
\* rectangle lies under the rows of the grid, and it is stamped there.
C14_LabelLands ==
    (AfterLabelTurn /\ LastLabelled.h.label.some) =>
        /\ probes >= 1
        /\ probes <= before.height + LastLabel.height
        /\ LandingRow <= Max(3, before.height + 1)
        /\ \A c \in InRange(LastLabel) :
            get(LineCharmap, LandingColumn + c[1], LandingRow + c[2]) = get(LastLabel, c[1], c[2])

\* A label of two rows landed under the decorations after three calls or
\* more.
C14_Witness ==
    /\ AfterLabelTurn
    /\ LastLabelled.h.label.some
    /\ LastLabel.height = 2
    /\ probes >= 3

\* "aa bb" was rendered with the highlight of "aa", labelled A, and the
\* highlight of "bb", labelled B, added in either order.
AaBbRendered ==
    /\ pc = "done"
    /\ input = AaBb
    /\ fmt.highlights = <<HighlightA, HighlightB>>

\* The label of a highlight is on the first decoration row, on the right of
\* the markers of the highlight.
LabelAfterMarkers(h) ==
    /\ \A x \in h.span.start.column..h.span.last.column :
        get(LineCharmap, RenderMargin + x, 1) =
            SpanMarker(StyleMarker(h.style), StyleColor(h.style))
    /\ \E x \in (RenderMargin + h.span.last.column + 1)..(LineCharmap.width - 1) :
        get(LineCharmap, x, 1) = Label(h.label.text[1], StyleColor(h.style))

\* C16 as stated: the grid of "aa bb" has one decoration row, where the
\* markers of each highlight are followed by its label.
C16_OneDecorationRow ==
    AaBbRendered =>
        /\ LineCharmap.height = 2
        /\ LabelAfterMarkers(HighlightA)
        /\ LabelAfterMarkers(HighlightB)

\* C16, amended: the grid of "aa bb" has three decoration rows. The first
\* holds the markers of both highlights and the label B two columns after the
\* markers of "bb"; the label A has no room between its markers and those of
\* "bb": it is on the third, in the column of the last marker of "aa", under a
\* connector on the second.
C16_LabelABelow ==
    AaBbRendered =>
        /\ CharMapDisplay(LineCharmap) =
            << <<"1", " ", "|", " ", "a", "a", " ", "b", "b", " ", " ">>,
               <<" ", " ", "|", " ", "^", "^", " ", "^", "^", " ", "B">>,
               <<" ", " ", "|", " ", " ", "|", " ", " ", " ", " ", " ">>,
               <<" ", " ", "|", " ", " ", "A", " ", " ", " ", " ", " ">> >>
        /\ LabelAfterMarkers(HighlightB)
        /\ get(LineCharmap, RenderMargin + 6, 1) = Label("B", "Red")
        /\ get(LineCharmap, RenderMargin + 1, 2) = SpanVertical("Red")
        /\ get(LineCharmap, RenderMargin + 1, 3) = Label("A", "Red")

\* The render of "aa bb" with its two highlights is finished, and its grid
\* has rows under the first decoration row.
C16_Witness ==
    /\ AaBbRendered
    /\ LineCharmap.height > 2
    /\ turn = 0

----------------------------------------------------------------------------
(* SpecGrid: a CharMap under any sequence of at most MaxCalls calls of its  *)
(* methods, from CharMap::new() or from the empty map of from_label.        *)

\* The cells written.
GridCells == {SpanMargin("Red"), SpanHorizontal("Red"), Margin("|", "Blue"), Label("a", "Red")}

\* The columns and rows the methods are called with.
Coords == 0..MaxCoord

\* The label stamped.
GridLabel == from_label(<<"a">>, "Red", DefaultTabStop)

InitGrid ==
    /\ charmap \in {CharMapNew, CharMapNone}
    /\ before = charmap
    /\ gop = NoCall /\ calls = 0 /\ turn = 0 /\ probes = 0

\* A method called with (x, y) left the map m.
Called(name, x, y, m) ==
    /\ calls < MaxCalls
    /\ charmap' = m
    /\ before' = charmap
    /\ gop' = [name |-> name, x |-> x, y |-> y]
    /\ calls' = calls + 1
    /\ UNCHANGED <<turn, probes>>
    /\ UNCHANGED <<spanVars, pairVars, posVars, ordVars, layoutVars, bufVars, fmtVars, renderVars>>

CallSet(x, y, c) == Called("set", x, y, set(charmap, x, y, c))

CallReserve(width, height) == Called("reserve", width, height, reserve(charmap, width, height))

CallDrawMarker(st, y, x) == Called("draw_marker", x, y, draw_marker(charmap, st, y, x))

CallDrawOpenLine(st, y, start, end) ==
    Called("draw_open_line", end, y, draw_open_line(charmap, st, y, start, end))

CallDrawClosedLine(st, y, start, end) ==
    Called("draw_closed_line", end, y, draw_closed_line(charmap, st, y, start, end))

CallDrawCharmapIfFree(x, y) ==
    Called("draw_charmap_if_free", x, y, draw_charmap_if_free(charmap, x, y, GridLabel))

NextGrid ==
    \/ \E x \in Coords, y \in Coords, c \in GridCells : CallSet(x, y, c)
    \/ \E width \in 1..(MaxCoord + 1), height \in 1..(MaxCoord + 1) : CallReserve(width, height)
    \/ \E x \in Coords, y \in Coords : CallDrawMarker([name |-> "Error"], y, x)
    \/ \E y \in Coords, start \in Coords, end \in Coords :
        start <= end /\ CallDrawOpenLine([name |-> "Error"], y, start, end)
    \/ \E y \in Coords, start \in Coords, end \in Coords :
        start <= end /\ CallDrawClosedLine([name |-> "Note"], y, start, end)
    \/ \E x \in Coords, y \in Coords : CallDrawCharmapIfFree(x, y)

\* The state SpecGrid starts from: its machine started, the others idle.
StartGrid == InitGrid /\ IdleAlgebra /\ IdleFmt /\ IdleRender

SpecGrid ==
    /\ StartGrid
    /\ [][NextGrid]_vars

\* C12: no call makes the map narrower or lower; a reserve leaves every cell
\* that was in range as it was, and so does a set but for the cell it writes,
\* which holds what was written; get out of range is Empty.
C12_GridGrows ==
    /\ charmap.width >= before.width
    /\ charmap.height >= before.height
    /\ Len(charmap.data) = charmap.width * charmap.height
    /\ gop.name = "reserve" =>
        /\ charmap.width = Max(gop.x, before.width)
        /\ charmap.height = Max(gop.y, before.height)
        /\ \A c \in InRange(before) : get(charmap, c[1], c[2]) = get(before, c[1], c[2])
    /\ gop.name = "set" =>
        /\ \A c \in InRange(before) :
            c # <<gop.x, gop.y>> => get(charmap, c[1], c[2]) = get(before, c[1], c[2])
        /\ get(charmap, gop.x, gop.y) \in GridCells
    /\ \A x \in 0..(MaxCoord + 2), y \in 0..(MaxCoord + 2) :
        (x >= charmap.width \/ y >= charmap.height) => get(charmap, x, y) = Empty

\* A set or a reserve made wider a map of two rows whose second row held a
\* cell: every cell of that row moved in the data.
C12_Witness ==
    /\ gop.name \in {"set", "reserve"}
    /\ charmap.width > before.width
    /\ before.height >= 2
    /\ get(before, 0, 1) # Empty
    /\ <<gop.x, gop.y>> # <<0, 1>>

----------------------------------------------------------------------------
(* SpecBuf: a SourceBuffer over an input of Result<char, E> items
   (buffer.rs), queried with index_at, get and at and read through the
   iterators made by iter(), iter_from() and iter_span(). *)

\* The results of the calls: Ok(Some(v)), Ok(None), Err(e), and a panic (an
\* index out of the bounds of a Vec).
OkSome(v) == [kind |-> "Some", val |-> v]
OkNone == [kind |-> "None"]
ErrOf(e) == [kind |-> "Err", val |-> e]
Panic == [kind |-> "panic"]

\* The loop of Inner::read_line: pull items until the end of the span
\* leaves the line, the input ends or yields an Err.
RECURSIVE ReadLineLoop(_, _, _)
ReadLineLoop(b, line, tabStop) ==
    IF line # b.span.end.line
    THEN [inner |-> [b EXCEPT !.lines = Append(b.lines, Len(b.data))], ret |-> TRUE]
    ELSE IF b.input = <<>> THEN [inner |-> b, ret |-> FALSE]
    ELSE IF IsErr(Head(b.input))
    THEN [inner |-> [b EXCEPT !.input = Tail(b.input), !.error = Head(b.input)],
          ret |-> FALSE]
    ELSE ReadLineLoop([b EXCEPT !.input = Tail(b.input),
                                !.data = Append(b.data, Head(b.input)),
                                !.span = push(b.span, Head(b.input), tabStop)],
                      line, tabStop)

\* A plausible slip in Inner::read_line: the loop does not stop at the end
\* of the line and pulls the input to its end.
RECURSIVE ReadToTheEndLoop(_, _)
ReadToTheEndLoop(b, tabStop) ==
    IF b.input = <<>> \/ IsErr(Head(b.input)) THEN ReadLineLoop(b, b.span.end.line, tabStop)
    ELSE ReadToTheEndLoop([b EXCEPT !.input = Tail(b.input),
                                    !.data = Append(b.data, Head(b.input)),
                                    !.span = push(b.span, Head(b.input), tabStop)],
                          tabStop)
ReadLineToTheEnd(b, tabStop) ==
    IF b.error = NoError THEN ReadToTheEndLoop(b, tabStop)
    ELSE [inner |-> b, ret |-> FALSE]

\* Inner::read_line: the Inner afterwards and the boolean returned.
read_line(b, tabStop) ==
    IF b.error = NoError THEN ReadLineLoop(b, b.span.end.line, tabStop)
    ELSE [inner |-> b, ret |-> FALSE]

\* `while pos >= self.span.end() && self.read_line(metrics) {}`.
RECURSIVE ReadUntilPos(_, _, _)
ReadUntilPosStep(r, position, tabStop) ==
    IF r.ret THEN ReadUntilPos(r.inner, position, tabStop) ELSE r.inner
ReadUntilPos(b, position, tabStop) ==
    IF PosGe(position, b.span.end) THEN ReadUntilPosStep(read_line(b, tabStop), position, tabStop)
    ELSE b

\* `while i >= self.data.len() && self.read_line(metrics) {}`.
RECURSIVE ReadUntilIndex(_, _, _)
ReadUntilIndexStep(r, i, tabStop) ==
    IF r.ret THEN ReadUntilIndex(r.inner, i, tabStop) ELSE r.inner
ReadUntilIndex(b, i, tabStop) ==
    IF i >= Len(b.data) THEN ReadUntilIndexStep(read_line(b, tabStop), i, tabStop)
    ELSE b

\* The error taken out of the Inner (std::mem::swap) and returned, Ok(None)
\* when there is none.
TakeError(b) ==
    [inner |-> [b EXCEPT !.error = NoError],
     res |-> IF b.error # NoError THEN ErrOf(b.error) ELSE OkNone]

\* The walk of Inner::index_at along the line of pos, from a cursor at
\* column 0 and the index i.
RECURSIVE IndexWalk(_, _, _, _, _)
IndexWalk(b, cursor, i, position, tabStop) ==
    IF PosLt(cursor, position)
    THEN IF i >= Len(b.data) THEN Panic
         ELSE IndexWalk(b, PosNext(cursor, b.data[i + 1], tabStop), i + 1, position, tabStop)
    ELSE IF cursor = position THEN OkSome(i)
    ELSE OkNone

\* Inner::index_at once the input was read: the error or the index found.
IndexAtRead(b, position, tabStop) ==
    IF PosGe(position, b.span.end) THEN TakeError(b)
    ELSE IF position.line - b.span.start.line >= Len(b.lines) THEN [inner |-> b, res |-> Panic]
    ELSE [inner |-> b,
          res |-> IndexWalk(b, Pos(position.line, 0),
                            b.lines[position.line - b.span.start.line + 1], position, tabStop)]

\* Inner::index_at(pos, metrics): the Inner afterwards and the result.
index_at(b, position, tabStop) ==
    IF PosLt(position, b.span.start) THEN [inner |-> b, res |-> OkNone]
    ELSE IndexAtRead(ReadUntilPos(b, position, tabStop), position, tabStop)

\* Inner::get once the input was read.
GetRead(b, i) ==
    IF i >= Len(b.data) THEN TakeError(b)
    ELSE [inner |-> b, res |-> OkSome(b.data[i + 1])]

\* Inner::get(i, metrics): the Inner afterwards and the result.
get_at_index(b, i, tabStop) == GetRead(ReadUntilIndex(b, i, tabStop), i)

\* SourceBuffer::at, given what index_at returned.
AtIndex(r, tabStop) ==
    IF r.res.kind = "Some" THEN get_at_index(r.inner, r.res.val, tabStop) ELSE r

\* SourceBuffer::at(pos).
at(b, position, tabStop) == AtIndex(index_at(b, position, tabStop), tabStop)

\* Position::end().
PositionEnd == Pos(UsizeMax, UsizeMax)

\* An Iter: i is Some(Ok(k)), None or Some(Err(e)), written as the result of
\* index_at it comes from; out is what it yielded so far and by the method
\* that made it.
Iter(i, position, end, by) == [i |-> i, pos |-> position, end |-> end, out |-> <<>>, by |-> by]

\* SourceBuffer::iter(): the Iter starts at index 0 and at the start of the
\* buffer's span, and ends at Position::end().
iter(b) == Iter(OkSome(0), b.span.start, PositionEnd, "iter")

\* The Iter of iter_from and iter_span, given what index_at returned for the
\* position it starts at: the Inner afterwards, the result of the call (a
\* panic of index_at, nothing otherwise) and the Iter.
IterAt(r, position, end, by) ==
    [inner |-> r.inner,
     res |-> IF r.res.kind = "panic" THEN Panic ELSE OkNone,
     iter |-> Iter(r.res, position, end, by)]

\* SourceBuffer::iter_from(pos).
iter_from(b, position, tabStop) ==
    IterAt(index_at(b, PosMax(b.span.start, position), tabStop),
           PosMax(b.span.start, position), PositionEnd, "iter_from")

\* SourceBuffer::iter_span(span).
iter_span(b, sp, tabStop) ==
    IterAt(index_at(b, PosMax(b.span.start, sp.start), tabStop),
           PosMax(b.span.start, sp.start), sp.end, "iter_span")

\* Iter::next, given what buffer.get(i) returned: the Inner and the Iter
\* afterwards, and the item (Ok(None) stands for None, the end).
IterNextGot(it, r, tabStop) ==
    IF r.res.kind = "Some"
    THEN [inner |-> r.inner,
          iter |-> [it EXCEPT !.pos = PosNext(it.pos, r.res.val, tabStop),
                              !.i = OkSome(it.i.val + 1),
                              !.out = Append(it.out, r.res.val)],
          res |-> r.res]
    ELSE [inner |-> r.inner, iter |-> it, res |-> r.res]

\* Iter::next: nothing at or after the end; the character at the index when
\* the Iter holds one; nothing when it holds none; the Err it holds, once.
IterNext(it, b, tabStop) ==
    IF PosGe(it.pos, it.end) THEN [inner |-> b, iter |-> it, res |-> OkNone]
    ELSE IF it.i.kind = "Some"
    THEN IterNextGot(it, get_at_index(b, it.i.val, tabStop), tabStop)
    ELSE IF it.i.kind = "None" THEN [inner |-> b, iter |-> it, res |-> OkNone]
    ELSE [inner |-> b, iter |-> [it EXCEPT !.i = OkNone], res |-> it.i]

\* The longest input.
MaxBufInput == 3
\* The most iterators made on a buffer.
MaxIters == 2

\* The items of the inputs: characters and an Err.
BufItems == {"a", NL, Err1}

\* The inputs: the sequences of at most MaxBufInput items.
BufInputs == UNION {[1..n -> BufItems] : n \in 0..MaxBufInput}

\* The positions the buffers start at.
BufStarts == {Pos(0, 0), Pos(MaxLine, MaxCol)}

\* The position of the k-th character of the buffered data, from the start
\* of the buffer's span.
BufCursor(k) == Consume(SubSeq(inner.data, 1, k - 1), inner.span.start, bts)

\* The positions asked for: those of the characters buffered, the end of
\* the buffer's span, the position after it and the origin.
BufPositions ==
    {BufCursor(k) : k \in 1..(Len(inner.data) + 1)}
        \cup {next_column(inner.span.end), Pos(0, 0)}

\* The position of the k-th item of the input, from the start of the buffer,
\* or the position after the last item when the input is shorter.
ItemCursor(k) ==
    Consume(SubSeq(binput, 1, Min(k - 1, Len(binput))), inner.span.start, bts)

\* The positions iterators are asked from: the origin, the second item of the
\* input and a position after the last.
IterPositions == {Pos(0, 0), ItemCursor(2), next_column(ItemCursor(Len(binput) + 1))}

\* The spans iterators are asked over: from the first item of the input to
\* the second and to the third.
IterSpans == {Span(ItemCursor(1), ItemCursor(1), ItemCursor(k)) : k \in 2..3}

\* SourceBuffer::new(input, position, metrics).
InitBuf ==
    /\ binput \in BufInputs
    /\ bts = MaxTab
    /\ \E p0 \in BufStarts :
        /\ inner = [input |-> binput, error |-> NoError, data |-> <<>>, lines |-> <<0>>,
                    span |-> SpanFrom(p0)]
        /\ bold = [input |-> binput, error |-> NoError, data |-> <<>>, lines |-> <<0>>,
                   span |-> SpanFrom(p0)]
    /\ iters = <<>>
    /\ bcall = [name |-> "new", arg |-> 0, res |-> OkNone]
    /\ surfaced = 0

\* The process is alive: no call panicked.
BufAlive == bcall.res.kind # "panic"

\* A call on the buffer returned r.
Answered(name, given, r) ==
    /\ inner' = r.inner
    /\ bold' = inner
    /\ bcall' = [name |-> name, arg |-> given, res |-> r.res]
    /\ surfaced' = IF r.res.kind = "Err" THEN surfaced + 1 ELSE surfaced
    /\ UNCHANGED <<binput, bts>>
    /\ UNCHANGED <<spanVars, pairVars, posVars, ordVars, layoutVars, fmtVars, renderVars,
                   drawVars>>

\* buffer.index_at(pos).
CallIndexAt(position) ==
    /\ BufAlive
    /\ Answered("index_at", position, index_at(inner, position, bts))
    /\ UNCHANGED iters

\* buffer.get(i).
CallGet(i) ==
    /\ BufAlive
    /\ Answered("get", i, get_at_index(inner, i, bts))
    /\ UNCHANGED iters

\* buffer.at(pos).
CallAt(position) ==
    /\ BufAlive
    /\ Answered("at", position, at(inner, position, bts))
    /\ UNCHANGED iters

\* buffer.iter().
CallIter ==
    /\ BufAlive
    /\ Len(iters) < MaxIters
    /\ iters' = Append(iters, iter(inner))
    /\ bcall' = [name |-> "iter", arg |-> Len(iters) + 1, res |-> OkNone]
    /\ bold' = inner
    /\ UNCHANGED <<binput, bts, inner, surfaced>>
    /\ UNCHANGED <<spanVars, pairVars, posVars, ordVars, layoutVars, fmtVars, renderVars,
                   drawVars>>

\* A call that makes an iterator, iter_from or iter_span, returned: r holds
\* the Inner afterwards and the Iter, which is lost when index_at panicked.
Made(name, r) ==
    /\ Len(iters) < MaxIters
    /\ inner' = r.inner
    /\ bold' = inner
    /\ iters' = IF r.res.kind = "panic" THEN iters ELSE Append(iters, r.iter)
    /\ bcall' = [name |-> name, arg |-> r.iter.pos, res |-> r.res]
    /\ UNCHANGED <<binput, bts, surfaced>>
    /\ UNCHANGED <<spanVars, pairVars, posVars, ordVars, layoutVars, fmtVars, renderVars,
                   drawVars>>

\* buffer.iter_from(pos).
CallIterFrom(position) ==
    /\ BufAlive
    /\ Made("iter_from", iter_from(inner, position, bts))

\* buffer.iter_span(span).
CallIterSpan(sp) ==
    /\ BufAlive
    /\ Made("iter_span", iter_span(inner, sp, bts))

\* The k-th iterator's next() returned r.
Yielded(k, r) ==
    /\ Answered("next", k, r)
    /\ iters' = [iters EXCEPT ![k] = r.iter]

\* next() on the k-th iterator.
CallIterNext(k) ==
    /\ BufAlive
    /\ Yielded(k, IterNext(iters[k], inner, bts))

NextBuf ==
    \/ \E position \in BufPositions : CallIndexAt(position)
    \/ \E i \in 0..Len(binput) : CallGet(i)
    \/ \E position \in BufPositions : CallAt(position)
    \/ CallIter
    \/ \E position \in IterPositions : CallIterFrom(position)
    \/ \E sp \in IterSpans : CallIterSpan(sp)
    \/ \E k \in 1..Len(iters) : CallIterNext(k)

\* The state SpecBuf starts from: its machine started, the others idle.
StartBuf ==
    /\ IdleSpan /\ IdlePair /\ IdlePos /\ IdleOrd /\ IdleLayout /\ InitBuf
    /\ IdleFmt /\ IdleRender /\ IdleDraw

SpecBuf ==
    /\ StartBuf
    /\ [][NextBuf]_vars

\* The number of items pulled from the input by an Inner.
Pulled(b) == Len(binput) - Len(b.input)

\* The input yields no Err.
ErrorFree == \A k \in 1..Len(binput) : ~IsErr(binput[k])

\* The last call was an access: index_at, get, at or an iterator's next.
Accessed == bcall.name \in {"index_at", "get", "at", "next"}

\* The index the last access by index was about: for next(), the index the
\* iterator holds, and the end of the content when it holds none.
TargetIndex ==
    IF bcall.name # "next" THEN bcall.arg
    ELSE IF iters[bcall.arg].i.kind = "Some" THEN iters[bcall.arg].i.val
    ELSE Len(inner.data)

\* The last access was about a position or an index past the buffered
\* content.
PastContent ==
    /\ Accessed
    /\ bcall.res.kind # "panic"
    /\ IF bcall.name \in {"index_at", "at"} THEN PosGe(bcall.arg, inner.span.end)
       ELSE /\ bcall.res.kind # "Some"
            /\ TargetIndex >= Len(inner.data)

\* The number of calls that had returned an Err before the last call.
SurfacedBefore == IF bcall.res.kind = "Err" THEN surfaced - 1 ELSE surfaced

\* The first Err the input has yielded so far, NoError when it yielded none.
FirstErrYielded ==
    IF \E k \in 1..Pulled(inner) : IsErr(binput[k])
    THEN binput[CHOOSE k \in 1..Pulled(inner) :
                    IsErr(binput[k]) /\ \A j \in 1..(k - 1) : ~IsErr(binput[j])]
    ELSE NoError

\* C21: once the input has yielded Err(e), the first access past the
\* buffered content returns Err(e) and every later access past the buffered
\* content returns None; the error is surfaced once and the content of the
\* buffer does not change afterwards.
C21_ErrorSurfacedOnce ==
    /\ surfaced <= 1
    /\ (PastContent /\ FirstErrYielded # NoError /\ SurfacedBefore = 0) =>
            bcall.res = ErrOf(FirstErrYielded)
    /\ (Accessed /\ SurfacedBefore >= 1) =>
            /\ inner.data = bold.data
            /\ PastContent => bcall.res = OkNone

\* The position of the k-th character of the input, consumed from the
\* start of the buffer.
InputCursor(k) == Consume(SubSeq(binput, 1, k - 1), inner.span.start, bts)

\* C22: over an error-free input and from any starting position, at(p) is
\* the character of the input whose position is p when that character has
\* a width, it is None without any reading for a position before the start,
\* and it never panics.
C22_AtFindsCharacter ==
    (ErrorFree /\ bcall.name = "at") =>
        /\ bcall.res.kind # "panic"
        /\ \A k \in 1..Len(binput) :
                (char_width(binput[k]) > 0 /\ InputCursor(k) = bcall.arg) =>
                    bcall.res = OkSome(binput[k])
        /\ PosLt(bcall.arg, inner.span.start) =>
                bcall.res = OkNone /\ inner.input = bold.input

\* The number of items that were pulled before the last line read by the
\* last call.
LastLineStart ==
    CHOOSE n \in Pulled(bold)..(Pulled(inner) - 1) :
        /\ n = Pulled(bold) \/ binput[n] = NL
        /\ \A t \in (n + 1)..(Pulled(inner) - 1) : binput[t] # NL

\* The last call needed the last line it read: its target was not in the
\* buffer before that line.
OnDemand ==
    Pulled(inner) > Pulled(bold) =>
        /\ Accessed \/ bcall.name \in {"iter_from", "iter_span"}
        /\ IF bcall.name \in {"index_at", "at", "iter_from", "iter_span"}
           THEN PosGe(bcall.arg, InputCursor(LastLineStart + 1))
           ELSE TargetIndex >= LastLineStart

\* C23: over an error-free input and whatever the calls, the buffer only
\* grows, the items of the input are pulled once each, in order, a whole
\* line at a time and only when a call needs the line, and every iterator
\* made by iter() yields the characters of the input in order, all of them
\* when it ends.
C23_LazyAndMonotone ==
    ErrorFree =>
        /\ bold.data = SubSeq(inner.data, 1, Len(bold.data))
        /\ PosGe(inner.span.end, bold.span.end)
        /\ inner.data = SubSeq(binput, 1, Pulled(inner))
        /\ inner.span.end = InputCursor(Pulled(inner) + 1)
        /\ \/ Pulled(inner) \in {0, Len(binput)}
           \/ binput[Pulled(inner)] = NL
        /\ OnDemand
        /\ \A k \in 1..Len(iters) :
                iters[k].by = "iter" =>
                    /\ iters[k].out = SubSeq(binput, 1, Len(iters[k].out))
                    /\ iters[k].i = OkSome(Len(iters[k].out))
        /\ (bcall.name = "next" /\ bcall.res = OkNone /\ iters[bcall.arg].by = "iter") =>
                iters[bcall.arg].out = binput

\* Two iterators read an input of several lines in turn with accesses by
\* index in between, and one of them reached the end.
C23_Witness ==
    /\ ErrorFree
    /\ Len(iters) = 2
    /\ iters[1].by = "iter" /\ iters[2].by = "iter"
    /\ \E k \in 1..(Len(binput) - 1) : binput[k] = NL
    /\ bcall.name = "next" /\ bcall.res = OkNone
    /\ iters[bcall.arg].out = binput
    /\ iters[3 - bcall.arg].out # <<>>
    /\ iters[3 - bcall.arg].out # binput

----------------------------------------------------------------------------
(* SpecBlock: Formatter::render on texts of three lines with highlights of
   several lines that open and close at any column, and on the last lines
   of a text of ten lines. *)

\* The text of the block example, "{\n  x\n}", the same
\* indented with a tabulation, and three lines "a b".
BlockText == <<"{", NL, " ", " ", "x", NL, "}">>
BlockTextTab == <<"{", NL, TAB, "x", NL, "}">>
ThreeLines == <<"a", " ", "b", NL, "a", " ", "b", NL, "a", " ", "b">>

\* The span from the character at (l1, c1) to the character at (l2, c2).
CharSpan(l1, c1, l2, c2) == Span(Pos(l1, c1), Pos(l2, c2), Pos(l2, c2 + 1))

\* The highlight of the example: the braces, labelled "block".
BlockHighlight ==
    Highlight(CharSpan(0, 0, 2, 0), SomeLabel(<<"b", "l", "o", "c", "k">>), [name |-> "Note"])

\* The highlights added on the lines "a b": over several lines or one, from
\* and to the first or the last column, with the label "L" or none.
LineHighlights ==
    {Highlight(CharSpan(p[1], p[2], p[3], p[4]), label, st) :
        p \in {<<0, 0, 1, 0>>, <<0, 0, 2, 2>>, <<0, 2, 1, 2>>, <<1, 0, 2, 0>>,
               <<1, 2, 2, 0>>, <<1, 0, 1, 2>>, <<0, 2, 2, 0>>},
        label \in {NoLabel, SomeLabel(<<"L">>)},
        st \in Styles}

\* A formatter after at most n calls of add with the highlights of a set.
RECURSIVE BlockFormattersWith(_, _)
BlockFormattersWith(hs, n) ==
    IF n = 0 THEN {FormatterDefault}
    ELSE BlockFormattersWith(hs, n - 1) \cup
         {add(f, h.span, h.label, h.style) : f \in BlockFormattersWith(hs, n - 1), h \in hs}

\* The last lines of a text of ten lines, as a render from the ninth line on
\* gets them: "a\n" and "a\na", from Position (8, 0).
TailText(n) == IF n = 2 THEN <<"a", NL>> ELSE <<"a", NL, "a">>

\* The span of the first k characters of a text that starts at a position.
SpanOfPrefixFrom(start, text, k, tabStop) ==
    LET last == Consume(SubSeq(text, 1, k - 1), start, tabStop)
    IN  Span(start, last, PosNext(last, text[k], tabStop))

\* The renders checked: the example, the lines "a b" under the formatters of
\* at most MaxHighlights highlights, each with every line rendered and with
\* the lines around the highlights only, and the ninth and tenth lines of a
\* text without highlight, every line rendered.
BlockCases ==
    {[input |-> t, fmt |-> set_viewbox(f, v), bound |-> SpanOfPrefix(t, Len(t), DefaultTabStop)] :
        t \in {BlockText, BlockTextTab}, f \in BlockFormattersWith({BlockHighlight}, 1),
        v \in {NoneCol, 0}}
    \cup {[input |-> ThreeLines, fmt |-> set_viewbox(f, v),
           bound |-> SpanOfPrefix(ThreeLines, Len(ThreeLines), DefaultTabStop)] :
            f \in BlockFormattersWith(LineHighlights, MaxHighlights), v \in {NoneCol, 0}}
    \cup {[input |-> TailText(n), fmt |-> set_viewbox(FormatterDefault, NoneCol),
           bound |-> SpanOfPrefixFrom(Pos(8, 0), TailText(n), k, DefaultTabStop)] :
            n \in 2..3, k \in 1..2}

InitBlock ==
    /\ \E rc \in BlockCases :
        /\ fmt = rc.fmt
        /\ input = rc.input
        /\ bound = rc.bound
    /\ call = "idle"
    /\ mts = DefaultTabStop
    /\ pc = "start" /\ idx = 0 /\ pos = Pos(0, 0)
    /\ lines = <<>> /\ rows = <<>>
    /\ is_important_line = FALSE
    /\ first_non_whitespace = NoneCol
    /\ mapped_highlights = <<>>

NextBlock ==
    \/ RenderBegin
    \/ RenderNewline
    \/ RenderTab
    \/ RenderChar
    \/ RenderEnd

\* The state SpecBlock starts from: its machine started, the others idle.
StartBlock == InitBlock /\ IdleAlgebra /\ IdleDraw

SpecBlock ==
    /\ StartBlock
    /\ [][NextBlock]_vars

\* ---------------------------------------------------------------------------
\* The decoration of the rendered lines, read from the finished grids.

\* The grid of the rendered source line L.
GridOf(L) == lines[CHOOSE i \in 1..Len(rows) : rows[i] = Row("text", L)]

\* The value of first_non_whitespace when the line L is finalized: the column
\* of its first character that is neither whitespace nor a control character.
FirstNonWhitespaceOf(L) ==
    LET ks == {k \in 1..Len(input) :
                /\ PositionAt(k).line = L
                /\ ~IsWhitespace(input[k])
                /\ ~IsControl(input[k])}
    IN  IF ks = {} \/ ~fmt.use_line_begining_shortcut
        THEN NoneCol
        ELSE PositionAt(CHOOSE k \in ks : \A j \in ks : k <= j).column

\* The i-th highlight spans several lines and opens with the line-beginning
\* shortcut: it starts at or before the first non-whitespace column.
OpensWithShortcut(i) ==
    LET h == mapped_highlights[i].h
        fnw == FirstNonWhitespaceOf(h.span.start.line)
    IN  /\ h.span.last.line > h.span.start.line
        /\ fnw # NoneCol
        /\ fnw >= h.span.start.column

\* No other highlight has the color of the i-th one: the cells of its color
\* are its own.
OwnColor(i) ==
    \A j \in 1..Len(mapped_highlights) :
        j # i => StyleColor(mapped_highlights[j].h.style) # StyleColor(mapped_highlights[i].h.style)

\* The label text is written in the row y of a grid from the column x0 on.
LabelAt(m, x0, y, text, color) ==
    \A j \in 1..Len(text) : get(m, x0 + j - 1, y) = Label(text[j], color)

\* The closing decoration of the i-th highlight in the grid of its last line:
\* the rail in the row of the run, the run from the rail to the marker, the
\* marker under the last column, and the label after the marker or below it.
ClosingRowDrawn(i) ==
    LET mh == mapped_highlights[i]
        h == mh.h
        m == GridOf(h.span.last.line)
        e == mh.end_nest_level
        x == RenderMargin - mh.margin_nest_level
        mx == RenderMargin + h.span.last.column
        color == StyleColor(h.style)
    IN  /\ e >= 1
        /\ get(m, x, e).k = "SpanMargin"
        /\ \A cx \in (x + 1)..(mx - 1) : get(m, cx, e).k \in {"SpanHorizontal", "SpanMargin"}
        /\ \E y \in 1..e : get(m, mx, y).k = "SpanMarker"
        /\ h.label.some =>
            \E y \in 1..(m.height - 1) :
                \/ LabelAt(m, mx + 2, y, h.label.text, color)
                \/ LabelAt(m, mx, y, h.label.text, color)

\* The opening line of the i-th highlight holds no run and no marker of its
\* color.
NoOpeningRun(i) ==
    LET h == mapped_highlights[i].h
        m == GridOf(h.span.start.line)
    IN  \A c \in InRange(m) :
            get(m, c[1], c[2]) \notin {SpanHorizontal(StyleColor(h.style)),
                                       SpanMarker(StyleMarker(h.style), StyleColor(h.style)),
                                       SpanUnderline(StyleLine(h.style), StyleColor(h.style))}

\* C24: a highlight over several lines that starts at or before the first
\* non-whitespace column of its first line has start_nest_level 0, the cell
\* (margin - margin_nest_level, 0) of that line is the SpanMarginMarker '/',
\* that line holds no opening run and no marker of the highlight, and the
\* decoration row of its last line shows the rail, the run, the marker under
\* the last column and the label.
C24_LineBeginningShortcut ==
    pc = "done" =>
        \A i \in 1..Len(mapped_highlights) :
            OpensWithShortcut(i) =>
                LET mh == mapped_highlights[i]
                IN  /\ mh.start_nest_level = 0
                    /\ get(GridOf(mh.h.span.start.line), RenderMargin - mh.margin_nest_level, 0)
                        = SpanMarginMarker(StyleColor(mh.h.style))
                    /\ OwnColor(i) => NoOpeningRun(i)
                    /\ ClosingRowDrawn(i)

\* The i-th highlight spans several lines and closes on the line L.
ClosesOn(i, L) ==
    LET s == mapped_highlights[i].h.span
    IN  s.last.line = L /\ s.start.line < L

\* The i-th highlight opens on the line L with a run, not with the shortcut.
OpensWithRunOn(i, L) ==
    mapped_highlights[i].h.span.start.line = L /\ ~OpensWithShortcut(i)

\* The columns of the run closing the i-th highlight on its last line.
ClosingRun(i) ==
    LET mh == mapped_highlights[i]
    IN  (RenderMargin - mh.margin_nest_level + 1)..(RenderMargin + mh.h.span.last.column)

\* The columns of the run opening the i-th highlight on its first line: from
\* the rail when it spans several lines, from its start to its last column
\* otherwise.
OpeningRun(i) ==
    LET mh == mapped_highlights[i]
    IN  IF mh.h.span.last.line = mh.h.span.start.line
        THEN (RenderMargin + mh.h.span.start.column)..(RenderMargin + mh.h.span.last.column)
        ELSE (RenderMargin - mh.margin_nest_level + 1)..(RenderMargin + mh.h.span.start.column)

\* A decoration row of a grid holds a SpanMarker in the column x.
MarkerIn(m, x) == \E y \in 1..(m.height - 1) : get(m, x, y).k = "SpanMarker"

\* C28: on a rendered line where a highlight over several lines closes and
\* another highlight opens without the shortcut, the row of the opening
\* differs from the row of the closing when their runs share a column, and
\* both highlights still have a SpanMarker in the column of their last,
\* respectively start, position.
C28_MarkersKept ==
    pc = "done" =>
        \A i, j \in 1..Len(mapped_highlights) :
            LET L == mapped_highlights[i].h.span.last.line
            IN  i # j /\ Rendered(L) /\ ClosesOn(i, L) /\ OpensWithRunOn(j, L) =>
                    /\ ClosingRun(i) \cap OpeningRun(j) # {} =>
                        mapped_highlights[j].start_nest_level # mapped_highlights[i].end_nest_level
                    /\ MarkerIn(GridOf(L), RenderMargin + mapped_highlights[i].h.span.last.column)
                    /\ MarkerIn(GridOf(L), RenderMargin + mapped_highlights[j].h.span.start.column)

\* The k-th grid stands for a line strictly between the first and the last
\* line of the i-th highlight: that source line, or the placeholder of the
\* lines left out around it.
StrictlyWithin(i, k) ==
    LET s == mapped_highlights[i].h.span
    IN  /\ rows[k].kind \in {"text", "placeholder"}
        /\ s.start.line < rows[k].line
        /\ rows[k].line < s.last.line

\* The rail of the i-th highlight stands in every row of the k-th grid.
RailIn(i, k) ==
    LET mh == mapped_highlights[i]
    IN  \A y \in 0..(lines[k].height - 1) :
            get(lines[k], RenderMargin - mh.margin_nest_level, y)
                = SpanMargin(StyleColor(mh.h.style))

\* C25: in the grid of every line strictly between the first and the last
\* line of a highlight, and in the placeholder standing for such lines, the
\* cell at column margin - margin_nest_level is the SpanMargin of the
\* highlight in every row, the rows added by other highlights and labels
\* included.
C25_RailContinuity ==
    pc = "done" =>
        \A i \in 1..Len(mapped_highlights) :
            \A k \in 1..Len(lines) : StrictlyWithin(i, k) => RailIn(i, k)

\* A render is done where a highlight runs through a line that another
\* highlight gave decoration rows.
C25_Witness ==
    /\ pc = "done"
    /\ \E i \in 1..Len(mapped_highlights) :
        \E k \in 1..Len(lines) :
            /\ StrictlyWithin(i, k)
            /\ rows[k].kind = "text"
            /\ lines[k].height >= 2
            /\ RailIn(i, k)

----------------------------------------------------------------------------
(* SpecCells: CharMap::reserve and CharMap::draw_marker applied once to a
   map whose last row, or whose first column, holds any cells. *)

\* The cells of the last row of a map that is given rows.
AlignCells ==
    {Empty, SpanMargin("Red"), SpanMarginMarker("Red"), SpanHorizontal("Blue"),
     Margin("|", "Blue"), Margin("1", "Blue")}

\* The maps of one or two rows and of at most MaxAlignWidth columns: the
\* last row holds any cells, the row above it, if any, rails only.
AlignMaps ==
    UNION {{[data |-> [i \in 1..(w * up) |-> SpanMargin("Red")] \o row,
             width |-> w, height |-> up + 1] :
                row \in [1..w -> AlignCells], up \in {0, 1}} :
            w \in 1..MaxAlignWidth}

\* The cells of a column that a marker is drawn in.
MarkerCells == {Empty, SpanHorizontal("Blue"), SpanMargin("Red"), Label("a", "Red")}

\* The maps of two columns and at most MaxMarkRow decoration rows: a text
\* row, then any cells in the first column and a run in the second.
MarkerMaps ==
    UNION {{[data |-> [i \in 1..(2 * h) |->
                        IF i <= 2 THEN Text("a")
                        ELSE IF i % 2 = 1 THEN col[(i - 1) \div 2]
                        ELSE SpanHorizontal("Blue")],
             width |-> 2, height |-> h] :
                col \in [1..(h - 1) -> MarkerCells]} :
            h \in 1..(MaxMarkRow + 1)}

InitCells ==
    /\ charmap \in AlignMaps \cup MarkerMaps
    /\ before = charmap
    /\ gop = NoCall /\ calls = 0 /\ turn = 0 /\ probes = 0

\* The one method called, with (x, y), left the map m.
Applied(name, x, y, m) ==
    /\ calls = 0
    /\ charmap' = m
    /\ before' = charmap
    /\ gop' = [name |-> name, x |-> x, y |-> y]
    /\ calls' = 1
    /\ UNCHANGED <<turn, probes>>
    /\ UNCHANGED <<spanVars, pairVars, posVars, ordVars, layoutVars, bufVars, fmtVars, renderVars>>

ApplyReserve(width, height) == Applied("reserve", width, height, reserve(charmap, width, height))

ApplyDrawMarker(st, y, x) == Applied("draw_marker", x, y, draw_marker(charmap, st, y, x))

NextCells ==
    \/ \E width \in 1..(MaxAlignWidth + 1), height \in 1..(MaxMarkRow + 1) :
        ApplyReserve(width, height)
    \/ \E y \in 0..MaxMarkRow, x \in 0..1 : ApplyDrawMarker([name |-> "Error"], y, x)

\* The state SpecCells starts from: its machine started, the others idle.
StartCells == InitCells /\ IdleAlgebra /\ IdleFmt /\ IdleRender

SpecCells ==
    /\ StartCells
    /\ [][NextCells]_vars

\* The cell the rule of align gives under the column x of the last row of a
\* map m of width w and height h.
RuleBelow(m, x) ==
    LET above == get(m, x, m.height - 1)
        right == get(m, x + 1, m.height - 1)
    IN  IF /\ above.k = "SpanMargin"
           /\ right.k = "SpanHorizontal"
           /\ (x = 0 \/ get(m, x - 1, m.height - 1).k # "SpanHorizontal")
        THEN Empty
        ELSE IF above.k \in {"SpanMargin", "SpanMarginMarker"} THEN SpanMargin(above.color)
        ELSE IF above.k = "Empty" /\ right.k = "SpanHorizontal" THEN SpanMargin(right.color)
        ELSE IF above = Margin("|", above.color) THEN Margin("|", above.color)
        ELSE Empty

\* C26: when a reserve adds rows under a map of size (w, h), every new cell
\* (x, y) with y >= h and x < w is set from the old last row by the rule of
\* align, and every new cell with x >= w is Empty.
C26_AlignRule ==
    (gop.name = "reserve" /\ before.height >= 1 /\ charmap.height > before.height) =>
        \A x \in 0..(charmap.width - 1), y \in before.height..(charmap.height - 1) :
            get(charmap, x, y) = IF x < before.width THEN RuleBelow(before, x) ELSE Empty

\* A reserve added rows and columns to a map of two rows whose last row had
\* a rail that ends at a run, and a cell that begins a rail.
C26_Witness ==
    /\ gop.name = "reserve"
    /\ charmap.height > before.height
    /\ charmap.width > before.width
    /\ before.height = 2
    /\ \E x \in 0..(before.width - 1) :
        /\ get(before, x, 1).k = "SpanMargin"
        /\ get(before, x + 1, 1).k = "SpanHorizontal"
        /\ get(charmap, x, 2) = Empty
    /\ \E x \in 0..(before.width - 1) :
        /\ get(before, x, 1).k = "SpanMarginMarker"
        /\ get(charmap, x, 2) = SpanMargin("Red")

\* The rows of the column x of a map, from 1 to y, whose cell is Empty or a
\* SpanHorizontal.
FreeRows(m, x, y) == {j \in 1..y : get(m, x, j).k \in {"Empty", "SpanHorizontal"}}

\* C27: draw_marker(style, y, x) gives the first row among 1..y whose cell
\* in the column x is Empty or SpanHorizontal the SpanMarker of the style and
\* every further such row a SpanVertical; it writes at most one SpanMarker;
\* every cell that was neither Empty nor SpanHorizontal, every cell of row 0
\* and every cell outside the column x keeps its value.
C27_DrawMarker ==
    gop.name = "draw_marker" =>
        LET free == FreeRows(before, gop.x, gop.y)
        IN  /\ \A j \in free :
                get(charmap, gop.x, j) =
                    IF \A i \in free : j <= i
                    THEN SpanMarker("^", "Red")
                    ELSE SpanVertical("Red")
            /\ Cardinality({c \in InRange(charmap) :
                                /\ get(charmap, c[1], c[2]).k = "SpanMarker"
                                /\ get(before, c[1], c[2]) # get(charmap, c[1], c[2])}) <= 1
            /\ \A c \in InRange(before) :
                (c[1] # gop.x \/ c[2] \notin free) =>
                    get(charmap, c[1], c[2]) = get(before, c[1], c[2])

\* A marker was drawn down to row 3 of a column whose row 1 was taken and
\* whose rows 2 and 3 were free: the marker is in row 2, a SpanVertical in
\* row 3.
C27_Witness ==
    /\ gop.name = "draw_marker"
    /\ gop.y = 3
    /\ before.height = 4
    /\ get(before, gop.x, 1).k = "SpanMargin"
    /\ get(before, gop.x, 2).k = "Empty"
    /\ get(before, gop.x, 3).k = "SpanHorizontal"
    /\ get(charmap, gop.x, 2).k = "SpanMarker"
    /\ get(charmap, gop.x, 3).k = "SpanVertical"

\* The k-th grid is finished: draw_line_number was called for it.
Numbered(k) == rows[k].kind = "text" /\ (k < Len(rows) \/ pc = "done")

\* C29: for every line render calls draw_line_number for, the line finalized
\* after the loop included, the digits of line + 1 are at most
\* line_number_margin - 3: the column of a digit is never below 0 and no
\* digit is written in the columns of the space and of the bar.
C29_DigitsFit ==
    /\ pc # "panicked"
    /\ RenderLineNumberMargin > 0 =>
        \A k \in 1..Len(rows) :
            Numbered(k) =>
                /\ Digits(rows[k].line + 1) <= RenderLineNumberMargin - 3
                /\ get(lines[k], RenderLineNumberMargin - 3, 0) = Empty
                /\ get(lines[k], RenderLineNumberMargin - 2, 0) = Margin("|", fmt.margin_color)

====
